---- MODULE Spec2Model ----
(***************************************************************************)
(* Model of the established-connection state machine of substrate-lite     *)
(* (src/network/libp2p/connection/established.rs): the Established engine, *)
(* its read_write step, update_now, add_request and                        *)
(* open_notifications_substream.                                           *)
(*                                                                         *)
(* The collaborators whose code is not part of the modelled file (noise    *)
(* cipher, yamux multiplexer, multistream-select negotiation, LEB128       *)
(* framed reader) are modelled from their contracts.  The wire is          *)
(* abstracted to yamux frames whose data is a sequence of tokens; one      *)
(* token stands for one byte of plaintext.                                 *)
(***************************************************************************)
EXTENDS Integers, Sequences, FiniteSets, TLC

\* ------------------------------------------------------- program constants

\* Duration::from_secs(20)
RequestTimeout == 20
\* arrayvec::ArrayVec<[u8; 32]>
PingSize == 32

\* ------------------------------------------------------------------ bounds

\* The remote sends at most this many blocks of PingSize bytes on a ping
\* substream.
MaxPingBlocks == 2
\* Length of the longest data frame of a ping substream.
MaxPingFrame == 17
\* Substream ids handed out by the multiplexer are 1..MaxSubstreams.
MaxSubstreams == 2
\* The host's clock advances in steps of half the request timeout, MaxTick times.
MaxTick == 3
\* User tags passed to add_request are 1..MaxTag.
MaxTag == 1
\* Number of yamux frames in the inbound slice of one read_write call.
MaxInbound == 1
\* Length of each output region the host offers, when it offers any.
MaxOutLen == 3
\* The host adds requests and feeds inbound data only while at most this many
\* items wait in the multiplexer's write queues.
MaxOutQueue == 1

\* ------------------------------------------------------------ value spaces

\* Option::None of an Option<TNow> or of an absent field.
None == 0 - 1

SubstreamIds == 1..MaxSubstreams
TickLen == RequestTimeout \div 2
UserTags == 1..MaxTag
\* The request bodies the host passes to add_request.
Requests == {"rq"}

\* Protocol names of the configuration, and one the listener does not offer.
ReqProto == "/x/req"
NotifProto == "/x/notif"
PingProto == "/ipfs/ping/1.0.0"
NopeProto == "/x/nope"

\* The Substream enum: one record per variant, unused fields at their default.
Substream(st, timeout, user_data, protocol, framed, payload, handshake, request) ==
    [st |-> st, timeout |-> timeout, user_data |-> user_data,
     protocol |-> protocol, framed |-> framed, payload |-> payload,
     handshake |-> handshake, request |-> request]

Poisoned == Substream("Poisoned", None, 0, "", 0, <<>>, "", "")
InboundNegotiating == Substream("InboundNegotiating", None, 0, "", 0, <<>>, "", "")
NegotiationFailed == Substream("NegotiationFailed", None, 0, "", 0, <<>>, "", "")
NotificationsOutNegotiating(timeout, handshake) ==
    Substream("NotificationsOutNegotiating", timeout, 0, "", 0, <<>>, handshake, "")
NotificationsOutHandshakeRecv(framed) ==
    Substream("NotificationsOutHandshakeRecv", None, 0, "", framed, <<>>, "", "")
NotificationsInHandshake(protocol, framed) ==
    Substream("NotificationsInHandshake", None, 0, protocol, framed, <<>>, "", "")
NotificationsInWait == Substream("NotificationsInWait", None, 0, "", 0, <<>>, "", "")
RequestOutNegotiating(timeout, user_data, request) ==
    Substream("RequestOutNegotiating", timeout, user_data, "", 0, <<>>, "", request)
RequestOut(timeout, user_data, framed) ==
    Substream("RequestOut", timeout, user_data, "", framed, <<>>, "", "")
RequestInRecv(protocol, framed) ==
    Substream("RequestInRecv", None, 0, protocol, framed, <<>>, "", "")
PingIn(payload) == Substream("PingIn", None, 0, "", 0, payload, "", "")

\* The Event enum and the RequestError carried by Event::Response.
Event(type, id, user_data, response, protocol, handshake) ==
    [type |-> type, id |-> id, user_data |-> user_data,
     response |-> response, protocol |-> protocol, handshake |-> handshake]
Response(id, user_data, response) == Event("Response", id, user_data, response, "", "")
NotificationsInOpen(id, protocol, handshake) ==
    Event("NotificationsInOpen", id, 0, "", protocol, handshake)

\* One yamux frame of the decoded plaintext.
Frame(kind, id, data) == [kind |-> kind, id |-> id, data |-> data]
FrameSize(f) == 1 + Len(f.data)

RECURSIVE BytesOf(_)
BytesOf(frames) ==
    IF frames = <<>> THEN 0 ELSE FrameSize(Head(frames)) + BytesOf(Tail(frames))

Min(a, b) == IF a <= b THEN a ELSE b
Max(a, b) == IF a >= b THEN a ELSE b

\* ---------------------------------------------------------------- state

VARIABLES
    conn,    \* the Established value the host holds
    alive,   \* FALSE once read_write consumed the engine without returning it
    clock,   \* the host's clock, passed as `now`
    pc,      \* "idle", or "returned" while the host looks at the outcome in `last`
    last,    \* what the call that just returned was given and what it returned
    hist,    \* per substream id, the responses of the events returned for it
    opened,  \* per substream id, who opened it and the deadline installed
    pinged,  \* number of bytes the remote has sent on its ping substream
    peer,    \* a second engine, the listener, and the two directions of the link
    ahead,   \* what the next read_write call of each of the two engines returns
    digest   \* a DigestItem, the bytes it was encoded to and what they decode to

vars == <<conn, alive, clock, pc, last, hist, opened, pinged, peer, ahead, digest>>

\* The deadlines next_timeout is computed from.
IsRequest(s) == s.st \in {"RequestOutNegotiating", "RequestOut"}
\* The variants that hold a `timeout` field.
HasDeadline(s) ==
    s.st \in {"RequestOutNegotiating", "RequestOut", "NotificationsOutNegotiating"}

Live(c) == DOMAIN c.yamux.substreams

SetMin(S) == CHOOSE x \in S : \A y \in S : x <= y

\* ------------------------------------------------------ yamux (contract)

\* Substream::write: a buffer of `len` bytes appended to the substream's queue.
YamuxWrite(y, id, what, len) ==
    IF len = 0 THEN y
    ELSE [y EXCEPT !.out = Append(@, [id |-> id, what |-> what, len |-> len,
                                      data |-> <<>>])]

\* Substream::write of a buffer whose bytes the model keeps.
YamuxWriteData(y, id, what, data) ==
    [y EXCEPT !.out = Append(@, [id |-> id, what |-> what, len |-> Len(data),
                                 data |-> data])]

\* Substream::close: the write side is closed after the queued data.
YamuxClose(y, id) == YamuxWrite(y, id, "fin", 1)

\* Substream::reset: the substream leaves the table, a RST frame is queued.
YamuxReset(y, id) ==
    LET y1 == [y EXCEPT !.substreams =
                  [i \in (DOMAIN y.substreams) \ {id} |-> y.substreams[i]]]
    IN  YamuxWrite(y1, id, "rst", 1)

\* Yamux::open_substream and accept_pending_substream: the next id is taken.
YamuxInsert(y, user_data) ==
    [y EXCEPT !.substreams =
                  [i \in (DOMAIN y.substreams) \cup {y.next_id} |->
                      IF i = y.next_id THEN user_data ELSE y.substreams[i]],
              !.next_id = @ + 1]

SetUserData(c, id, s) == [c EXCEPT !.yamux.substreams[id] = s]

\* ------------------------------------------------------------ update_now

\* `find` with `*timeout < now` for its guard: a request is not found at the
\* instant of its deadline. C2 tells it from TimedOut.
TimedOutBefore(c, now) ==
    {id \in Live(c) : IsRequest(c.yamux.substreams[id])
                      /\ c.yamux.substreams[id].timeout < now}

\* `find` without the guard on `timeout`: any request is found. C3 tells it
\* from TimedOut.
TimedOutAny(c, now) ==
    {id \in Live(c) : IsRequest(c.yamux.substreams[id])}

\* `find` matching every variant that holds a timeout. C24 tells it from
\* TimedOut.
TimedOutDeadlines(c, now) ==
    {id \in Live(c) : HasDeadline(c.yamux.substreams[id])
                      /\ c.yamux.substreams[id].timeout <= now}

\* The substreams `find` can return: requests whose deadline is <= now.
TimedOut(c, now) ==
    {id \in Live(c) : IsRequest(c.yamux.substreams[id])
                      /\ c.yamux.substreams[id].timeout <= now}

\* The recomputation of next_timeout at the end of update_now.
RecomputeNextTimeout(c) ==
    LET ts == {c.yamux.substreams[id].timeout :
                  id \in {i \in Live(c) : IsRequest(c.yamux.substreams[i])}}
    IN  IF ts = {} THEN None ELSE SetMin(ts)

\* An update_now that resets every request it finds timed out and reports
\* one of them. C22 tells it from update_now.
RECURSIVE ResetAll(_, _)
ResetAll(y, ids) ==
    IF ids = {} THEN y ELSE ResetAll(YamuxReset(y, SetMin(ids)), ids \ {SetMin(ids)})

update_now_all(c, now, pick) ==
    IF c.next_timeout = None \/ c.next_timeout > now
    THEN [c |-> c, event |-> <<>>]
    ELSE LET found == TimedOut(c, now)
             id == IF pick \in found THEN pick ELSE SetMin(found)
             ev == IF found = {} THEN <<>>
                   ELSE <<Response(id, c.yamux.substreams[id].user_data, "Timeout")>>
             c1 == [c EXCEPT !.yamux = ResetAll(@, found)]
         IN  [c |-> [c1 EXCEPT !.next_timeout = RecomputeNextTimeout(c1)],
              event |-> ev]

\* `pick` is the substream the iteration of user_datas() reaches first among
\* the timed out ones (the iteration order of the table is unspecified).
update_now(c, now, pick) ==
    IF c.next_timeout = None \/ c.next_timeout > now
    THEN [c |-> c, event |-> <<>>]
    ELSE LET found == TimedOut(c, now)
             id == IF pick \in found THEN pick ELSE SetMin(found)
             ev == IF found = {} THEN <<>>
                   ELSE <<Response(id, c.yamux.substreams[id].user_data, "Timeout")>>
             c1 == IF found = {} THEN c
                   ELSE [c EXCEPT !.yamux = YamuxReset(@, id)]
         IN  [c |-> [c1 EXCEPT !.next_timeout = RecomputeNextTimeout(c1)],
              event |-> ev]

\* ---------------------------------------------------- host-facing surface

\* next_timeout overwritten, not lowered. C5 tells it from LowerNextTimeout.
OverwriteNextTimeout(next_timeout, timeout) == timeout

\* `if self.next_timeout.map_or(true, |t| t > timeout) { next_timeout = Some(timeout) }`
LowerNextTimeout(next_timeout, timeout) ==
    IF next_timeout = None \/ next_timeout > timeout THEN timeout ELSE next_timeout

\* An add_request that does not queue the first message of the negotiation.
\* C34 tells it from add_request.
add_request_unwritten(c, now, request, user_data) ==
    LET timeout == now + RequestTimeout
    IN  [c EXCEPT !.next_timeout = LowerNextTimeout(@, timeout),
                  !.yamux = YamuxInsert(@, RequestOutNegotiating(timeout, user_data,
                                                                 request))]

add_request(c, now, request, user_data) ==
    LET timeout == now + RequestTimeout
        id == c.yamux.next_id
        y1 == YamuxInsert(c.yamux, RequestOutNegotiating(timeout, user_data, request))
    IN  [c EXCEPT !.next_timeout = LowerNextTimeout(@, timeout),
                  !.yamux = YamuxWrite(y1, id, "nego", 1)]

\* An opening of a notifications substream that leaves next_timeout alone.
\* C16 tells it from open_notifications_substream.
open_notifications_substream_unarmed(c, now, handshake) ==
    LET timeout == now + RequestTimeout
        id == c.yamux.next_id
        y1 == YamuxInsert(c.yamux, NotificationsOutNegotiating(timeout, handshake))
    IN  [c EXCEPT !.yamux = YamuxWrite(y1, id, "nego", 1)]

open_notifications_substream(c, now, handshake) ==
    LET timeout == now + RequestTimeout
        id == c.yamux.next_id
        y1 == YamuxInsert(c.yamux, NotificationsOutNegotiating(timeout, handshake))
    IN  [c EXCEPT !.next_timeout = LowerNextTimeout(@, timeout),
                  !.yamux = YamuxWrite(y1, id, "nego", 1)]

\* ------------------------------------- multistream-select, leb128 (contract)

ProtocolNames == {ReqProto, NotifProto, PingProto, NopeProto}

\* The handshakes the host passes to open_notifications_substream.
Handshakes == {"h1", "h2"}

\* Position of the first token that is not "part" (0 when there is none).
RECURSIVE FirstNot(_, _, _)
FirstNot(data, skip, i) ==
    IF i > Len(data) THEN 0
    ELSE IF data[i] \notin skip THEN i
    ELSE FirstNot(data, skip, i + 1)

Negotiation(res, protocol, num_read, out_len) ==
    [res |-> res, protocol |-> protocol, num_read |-> num_read, out_len |-> out_len]

\* InProgress::read_write_vec of a dialer requesting one protocol.
DialerReadWrite(data) ==
    LET k == FirstNot(data, {"part"}, 1)
    IN  IF k = 0 THEN Negotiation("InProgress", "", Len(data), 0)
        ELSE IF data[k] = "ok" THEN Negotiation("Success", "", k, 1)
        ELSE IF data[k] = "na" THEN Negotiation("NotAvailable", "", k, 0)
        ELSE Negotiation("Err", "", k, 0)

\* InProgress::read_write_vec of a listener offering `supported`.
ListenerReadWrite(data, supported) ==
    LET k == FirstNot(data, {"part"}, 1)
    IN  IF k = 0 THEN Negotiation("InProgress", "", Len(data), 0)
        ELSE IF data[k] \in ProtocolNames
             THEN IF \E i \in DOMAIN supported : supported[i] = data[k]
                  THEN Negotiation("Success", data[k], k, 1)
                  ELSE Negotiation("NotAvailable", "", k, 1)
        ELSE Negotiation("Err", "", k, 0)

\* The tokens that end a length-prefixed frame: each stands for the last bytes
\* of a payload and names the payload.
Payloads == {"fr"} \cup Handshakes

\* leb128::Framed::inject_data followed by take_frame.
FramedInject(framed, data) ==
    LET k == FirstNot(data, ((ProtocolNames \cup {"part", "ok", "na", "byte"})), 1)
    IN  IF k = 0
        THEN [err |-> FALSE, num_read |-> Len(data), frame |-> FALSE, bytes |-> "",
              framed |-> IF Len(data) > 0 THEN 1 ELSE framed]
        ELSE IF data[k] \in Payloads
             THEN [err |-> FALSE, num_read |-> k, frame |-> TRUE, bytes |-> data[k],
                   framed |-> 0]
        ELSE [err |-> TRUE, num_read |-> 0, frame |-> FALSE, bytes |-> "",
              framed |-> framed]

Drop(data, n) == SubSeq(data, n + 1, Len(data))

\* ------------------------------------------------------ noise (contract)

\* Frames the decoded-data buffer of the cipher holds at most.
NoiseBufferFrames == 2
\* Bytes one encrypted message adds to its plaintext.
NoiseOverhead == 1

\* Noise::inject_inbound_data: the prefix of `incoming` that fits is decoded.
RECURSIVE InjectInbound(_, _, _)
InjectInbound(buffer, incoming, num_read) ==
    IF incoming = <<>> \/ Len(buffer) >= NoiseBufferFrames
    THEN [err |-> FALSE, buffer |-> buffer, rest |-> incoming, num_read |-> num_read]
    ELSE IF Head(incoming).kind = "corrupt"
    THEN [err |-> TRUE, buffer |-> buffer, rest |-> incoming, num_read |-> num_read]
    ELSE InjectInbound(Append(buffer, Head(incoming)), Tail(incoming),
                       num_read + FrameSize(Head(incoming)))

\* Noise::consume_inbound_data.
RECURSIVE ConsumeInbound(_, _)
ConsumeInbound(buffer, n) ==
    IF n <= 0 \/ buffer = <<>> THEN buffer
    ELSE ConsumeInbound(Tail(buffer), n - FrameSize(Head(buffer)))

\* Noise::encrypt_size_conv.
EncryptSizeConv(capacity) ==
    IF capacity > NoiseOverhead THEN capacity - NoiseOverhead ELSE 0

\* ----------------------------------------------- yamux parsing (contract)

YamuxDecode(err, detail, bytes_read, id, user_data, y) ==
    [err |-> err, detail |-> detail, bytes_read |-> bytes_read,
     substream_id |-> id, user_data |-> user_data, yamux |-> y]

\* Yamux::incoming_data on the decoded buffer: the frame at its head.
YamuxIncomingData(y, buffer) ==
    IF buffer = <<>> THEN YamuxDecode(FALSE, "None", 0, 0, Poisoned, y)
    ELSE LET f == Head(buffer)
             n == FrameSize(f)
             known == f.id \in DOMAIN y.substreams
         IN  CASE f.kind = "garbage" -> YamuxDecode(TRUE, "None", 0, 0, Poisoned, y)
               [] f.kind = "syn" ->
                    YamuxDecode(FALSE, "IncomingSubstream", n, y.next_id, Poisoned, y)
               [] f.kind = "rst" /\ known ->
                    YamuxDecode(FALSE, "StreamReset", n, f.id, y.substreams[f.id],
                        [y EXCEPT !.substreams =
                            [i \in (DOMAIN y.substreams) \ {f.id} |-> y.substreams[i]]])
               [] f.kind = "data" /\ known ->
                    YamuxDecode(FALSE, "DataFrame", n, f.id, Poisoned, y)
               [] OTHER -> YamuxDecode(FALSE, "None", n, 0, Poisoned, y)

\* Yamux::extract_out: at most `max` bytes of the item at the head of the queue.
YamuxExtractOut(y, max) ==
    IF y.out = <<>> \/ max = 0 THEN [n |-> 0, yamux |-> y]
    ELSE LET item == Head(y.out)
             n == Min(item.len, max)
         IN  [n |-> n,
              yamux |-> [y EXCEPT !.out =
                            IF n = item.len THEN Tail(@)
                            ELSE <<[item EXCEPT
                                       !.len = @ - n,
                                       !.data = IF @ = <<>> THEN @
                                                ELSE SubSeq(@, n + 1, Len(@))]>>
                                 \o Tail(@)]]

\* ------------------------------------------------- per-substream dispatch

\* Result of one pass of `while !data.is_empty()`: exit is "loop" (go on),
\* "break", "return" (an event is returned) or "panic" (todo!(), unwrap()).
Step(c, data, events, exit) ==
    [c |-> c, data |-> data, events |-> events, exit |-> exit]

SupportedProtocols(c) ==
    c.in_request_protocols \o c.in_notifications_protocols \o <<c.ping_protocol>>

\* A Success arm that looks the protocol up in the request list before it
\* compares it with the ping protocol. C27 tells it from NegotiatedInbound.
NegotiatedInboundByLists(c, protocol) ==
    IF \E i \in DOMAIN c.in_request_protocols : c.in_request_protocols[i] = protocol
    THEN RequestInRecv(protocol, 0)
    ELSE IF protocol = c.ping_protocol THEN PingIn(<<>>)
    ELSE NotificationsInHandshake(protocol, 0)

\* The state an inbound substream takes once `protocol` is negotiated.
NegotiatedInbound(c, protocol) ==
    IF protocol = c.ping_protocol THEN PingIn(<<>>)
    ELSE IF \E i \in DOMAIN c.in_request_protocols : c.in_request_protocols[i] = protocol
         THEN RequestInRecv(protocol, 0)
    ELSE NotificationsInHandshake(protocol, 0)

\* An inbound negotiation that, on NotAvailable, leaves the write side open.
\* C19 tells it from StepInboundNegotiating.
StepInboundNegotiatingOpen(c, id, data) ==
    LET r == ListenerReadWrite(data, SupportedProtocols(c))
        w == [c EXCEPT !.yamux = YamuxWrite(@, id, "nego", r.out_len)]
    IN  CASE r.res = "InProgress" ->
               Step(SetUserData(w, id, InboundNegotiating), Drop(data, r.num_read),
                    <<>>, "loop")
          [] r.res = "Success" ->
               Step(SetUserData(w, id, NegotiatedInbound(c, r.protocol)),
                    Drop(data, r.num_read), <<>>, "loop")
          [] r.res = "NotAvailable" ->
               Step(SetUserData(w, id, NegotiationFailed),
                    Drop(data, r.num_read), <<>>, "loop")
          [] OTHER ->
               Step([c EXCEPT !.yamux = YamuxReset(@, id)], data, <<>>, "break")

StepInboundNegotiating(c, id, data) ==
    LET r == ListenerReadWrite(data, SupportedProtocols(c))
        w == [c EXCEPT !.yamux = YamuxWrite(@, id, "nego", r.out_len)]
    IN  CASE r.res = "InProgress" ->
               Step(SetUserData(w, id, InboundNegotiating), Drop(data, r.num_read),
                    <<>>, "loop")
          [] r.res = "Success" ->
               Step(SetUserData(w, id, NegotiatedInbound(c, r.protocol)),
                    Drop(data, r.num_read), <<>>, "loop")
          [] r.res = "NotAvailable" ->
               Step(SetUserData([w EXCEPT !.yamux = YamuxClose(@, id)], id,
                                NegotiationFailed),
                    Drop(data, r.num_read), <<>>, "loop")
          [] OTHER ->
               Step([c EXCEPT !.yamux = YamuxReset(@, id)], data, <<>>, "break")

\* A NegotiationFailed arm that hands the data to a new listener
\* negotiation. C28 tells it from StepNegotiationFailed.
StepNegotiationFailedRetry(c, id, data) == StepInboundNegotiating(c, id, data)

\* The NegotiationFailed arm: `data = &data[data.len()..]`, the state is put
\* back.
StepNegotiationFailed(c, id, data) ==
    Step(SetUserData(c, id, NegotiationFailed), <<>>, <<>>, "loop")

StepNotificationsOutNegotiating(c, id, old, data) ==
    LET r == DialerReadWrite(data)
        w == [c EXCEPT !.yamux = YamuxWrite(@, id, "nego", r.out_len)]
    IN  CASE r.res = "InProgress" ->
               Step(SetUserData(w, id,
                                NotificationsOutNegotiating(old.timeout, old.handshake)),
                    Drop(data, r.num_read), <<>>, "loop")
          [] r.res = "Success" ->
               Step(SetUserData(
                        [w EXCEPT !.yamux =
                            YamuxWriteData(YamuxWrite(@, id, "leb", 1), id, "handshake",
                                           <<old.handshake>>)],
                        id, NotificationsOutHandshakeRecv(0)),
                    Drop(data, r.num_read), <<>>, "loop")
          [] OTHER -> Step(c, data, <<>>, "panic")

StepNotificationsOutHandshakeRecv(c, id, old, data) ==
    LET r == FramedInject(old.framed, data)
    IN  IF r.err \/ r.frame THEN Step(c, data, <<>>, "panic")
        ELSE Step(SetUserData(c, id, NotificationsOutHandshakeRecv(r.framed)),
                  Drop(data, r.num_read), <<>>, "loop")

\* A negotiation arm whose failures report the event and leave the substream in
\* place. C15 tells it from StepRequestOutNegotiating.
StepRequestOutNegotiatingKept(c, id, old, data) ==
    LET r == DialerReadWrite(data)
        w == [c EXCEPT !.yamux = YamuxWrite(@, id, "nego", r.out_len)]
    IN  CASE r.res = "InProgress" ->
               Step(SetUserData(w, id, RequestOutNegotiating(old.timeout, old.user_data,
                                                           old.request)),
                    Drop(data, r.num_read), <<>>, "loop")
          [] r.res = "Success" ->
               Step(SetUserData(
                        [w EXCEPT !.yamux =
                            YamuxClose(
                                YamuxWrite(YamuxWrite(@, id, "leb", 1), id, "request", 2),
                                id)],
                        id, RequestOut(old.timeout, old.user_data, 0)),
                    Drop(data, r.num_read), <<>>, "loop")
          [] r.res = "NotAvailable" ->
               Step(SetUserData(c, id, NegotiationFailed), data,
                    <<Response(id, old.user_data, "ProtocolNotAvailable")>>, "return")
          [] OTHER ->
               Step(SetUserData(c, id, NegotiationFailed), data,
                    <<Response(id, old.user_data, "NegotiationError")>>, "return")

\* A Success arm that closes the write side before it writes the request.
\* C29 tells it from StepRequestOutNegotiating.
StepRequestOutNegotiatingClosedEarly(c, id, old, data) ==
    LET r == DialerReadWrite(data)
        w == [c EXCEPT !.yamux = YamuxWrite(@, id, "nego", r.out_len)]
    IN  CASE r.res = "InProgress" ->
               Step(SetUserData(w, id, RequestOutNegotiating(old.timeout, old.user_data,
                                                           old.request)),
                    Drop(data, r.num_read), <<>>, "loop")
          [] r.res = "Success" ->
               Step(SetUserData(
                        [w EXCEPT !.yamux =
                            YamuxWrite(YamuxWrite(YamuxClose(@, id), id, "leb", 1),
                                       id, "request", 2)],
                        id, RequestOut(old.timeout, old.user_data, 0)),
                    Drop(data, r.num_read), <<>>, "loop")
          [] r.res = "NotAvailable" ->
               Step([c EXCEPT !.yamux = YamuxReset(@, id)], data,
                    <<Response(id, old.user_data, "ProtocolNotAvailable")>>, "return")
          [] OTHER ->
               Step([c EXCEPT !.yamux = YamuxReset(@, id)], data,
                    <<Response(id, old.user_data, "NegotiationError")>>, "return")

StepRequestOutNegotiating(c, id, old, data) ==
    LET r == DialerReadWrite(data)
        w == [c EXCEPT !.yamux = YamuxWrite(@, id, "nego", r.out_len)]
    IN  CASE r.res = "InProgress" ->
               Step(SetUserData(w, id, RequestOutNegotiating(old.timeout, old.user_data,
                                                           old.request)),
                    Drop(data, r.num_read), <<>>, "loop")
          [] r.res = "Success" ->
               Step(SetUserData(
                        [w EXCEPT !.yamux =
                            YamuxClose(
                                YamuxWrite(YamuxWrite(@, id, "leb", 1), id, "request", 2),
                                id)],
                        id, RequestOut(old.timeout, old.user_data, 0)),
                    Drop(data, r.num_read), <<>>, "loop")
          [] r.res = "NotAvailable" ->
               Step([c EXCEPT !.yamux = YamuxReset(@, id)], data,
                    <<Response(id, old.user_data, "ProtocolNotAvailable")>>, "return")
          [] OTHER ->
               Step([c EXCEPT !.yamux = YamuxReset(@, id)], data,
                    <<Response(id, old.user_data, "NegotiationError")>>, "return")

\* A RequestOut arm that returns the response without putting a state back.
\* C11 tells it from StepRequestOut.
StepRequestOutTaken(c, id, old, data) ==
    LET r == FramedInject(old.framed, data)
    IN  IF r.err
        THEN Step([c EXCEPT !.yamux = YamuxReset(@, id)], data,
                  <<Response(id, old.user_data, "ResponseLebError")>>, "return")
        ELSE IF r.frame
        THEN Step(c, Drop(data, r.num_read),
                  <<Response(id, old.user_data, "Ok")>>, "return")
        ELSE Step(SetUserData(c, id, RequestOut(old.timeout, old.user_data, r.framed)),
                  Drop(data, r.num_read), <<>>, "loop")

\* A RequestOut arm that pushes the deadline back when response data comes
\* in. C30 tells it from StepRequestOut.
StepRequestOutExtending(c, id, old, data) ==
    LET r == FramedInject(old.framed, data)
    IN  IF r.err
        THEN Step([c EXCEPT !.yamux = YamuxReset(@, id)], data,
                  <<Response(id, old.user_data, "ResponseLebError")>>, "return")
        ELSE IF r.frame
        THEN Step(SetUserData(c, id, NegotiationFailed), Drop(data, r.num_read),
                  <<Response(id, old.user_data, "Ok")>>, "return")
        ELSE Step(SetUserData(c, id, RequestOut(old.timeout + RequestTimeout,
                                                 old.user_data, r.framed)),
                  Drop(data, r.num_read), <<>>, "loop")

\* A RequestOut arm that reports a reader error without resetting the
\* substream. C31 tells it from StepRequestOut.
StepRequestOutUnreset(c, id, old, data) ==
    LET r == FramedInject(old.framed, data)
    IN  IF r.err
        THEN Step(SetUserData(c, id, NegotiationFailed), data,
                  <<Response(id, old.user_data, "ResponseLebError")>>, "return")
        ELSE IF r.frame
        THEN Step(SetUserData(c, id, NegotiationFailed), Drop(data, r.num_read),
                  <<Response(id, old.user_data, "Ok")>>, "return")
        ELSE Step(SetUserData(c, id, RequestOut(old.timeout, old.user_data, r.framed)),
                  Drop(data, r.num_read), <<>>, "loop")

\* A RequestOut arm that returns the response and goes on waiting for one.
\* C25 tells it from StepRequestOut.
StepRequestOutAgain(c, id, old, data) ==
    LET r == FramedInject(old.framed, data)
    IN  IF r.err
        THEN Step([c EXCEPT !.yamux = YamuxReset(@, id)], data,
                  <<Response(id, old.user_data, "ResponseLebError")>>, "return")
        ELSE IF r.frame
        THEN Step(SetUserData(c, id, RequestOut(old.timeout, old.user_data, 0)),
                  Drop(data, r.num_read),
                  <<Response(id, old.user_data, "Ok")>>, "return")
        ELSE Step(SetUserData(c, id, RequestOut(old.timeout, old.user_data, r.framed)),
                  Drop(data, r.num_read), <<>>, "loop")

StepRequestOut(c, id, old, data) ==
    LET r == FramedInject(old.framed, data)
    IN  IF r.err
        THEN Step([c EXCEPT !.yamux = YamuxReset(@, id)], data,
                  <<Response(id, old.user_data, "ResponseLebError")>>, "return")
        ELSE IF r.frame
        THEN Step(SetUserData(c, id, NegotiationFailed), Drop(data, r.num_read),
                  <<Response(id, old.user_data, "Ok")>>, "return")
        ELSE Step(SetUserData(c, id, RequestOut(old.timeout, old.user_data, r.framed)),
                  Drop(data, r.num_read), <<>>, "loop")

\* A handshake arm that reports the substream without the handshake received.
\* C17 tells it from StepNotificationsInHandshake.
StepNotificationsInHandshakeBare(c, id, old, data) ==
    LET r == FramedInject(old.framed, data)
    IN  IF r.err THEN Step(c, data, <<>>, "panic")
        ELSE IF r.frame
        THEN Step(SetUserData(c, id, NotificationsInWait), Drop(data, r.num_read),
                  <<NotificationsInOpen(id, old.protocol, "")>>, "return")
        ELSE Step(SetUserData(c, id, NotificationsInHandshake(old.protocol, r.framed)),
                  Drop(data, r.num_read), <<>>, "loop")

\* A handshake arm that reports the substream and goes on reading
\* handshakes. C32 tells it from StepNotificationsInHandshake.
StepNotificationsInHandshakeAgain(c, id, old, data) ==
    LET r == FramedInject(old.framed, data)
    IN  IF r.err THEN Step(c, data, <<>>, "panic")
        ELSE IF r.frame
        THEN Step(SetUserData(c, id, NotificationsInHandshake(old.protocol, 0)),
                  Drop(data, r.num_read),
                  <<NotificationsInOpen(id, old.protocol, r.bytes)>>, "return")
        ELSE Step(SetUserData(c, id, NotificationsInHandshake(old.protocol, r.framed)),
                  Drop(data, r.num_read), <<>>, "loop")

StepNotificationsInHandshake(c, id, old, data) ==
    LET r == FramedInject(old.framed, data)
    IN  IF r.err THEN Step(c, data, <<>>, "panic")
        ELSE IF r.frame
        THEN Step(SetUserData(c, id, NotificationsInWait), Drop(data, r.num_read),
                  <<NotificationsInOpen(id, old.protocol, r.bytes)>>, "return")
        ELSE Step(SetUserData(c, id, NotificationsInHandshake(old.protocol, r.framed)),
                  Drop(data, r.num_read), <<>>, "loop")

\* A RequestInRecv arm that feeds its framed reader and reports the request.
\* C33 tells it from StepRequestInRecv.
StepRequestInRecvReading(c, id, old, data) ==
    LET r == FramedInject(old.framed, data)
    IN  IF r.err THEN Step(c, data, <<>>, "panic")
        ELSE IF r.frame
        THEN Step(SetUserData(c, id, RequestInRecv(old.protocol, 0)),
                  Drop(data, r.num_read),
                  <<Event("RequestIn", id, 0, "", old.protocol, "")>>, "return")
        ELSE Step(SetUserData(c, id, RequestInRecv(old.protocol, r.framed)),
                  Drop(data, r.num_read), <<>>, "loop")

\* The RequestInRecv arm: `data = &data[data.len()..]`, the state is put back
\* with the reader and the protocol it held.
StepRequestInRecv(c, id, old, data) ==
    Step(SetUserData(c, id, RequestInRecv(old.protocol, old.framed)), <<>>, <<>>, "loop")

\* The inner `while !data.is_empty()` of the PingIn arm, one byte per pass.
RECURSIVE PingPush(_, _, _, _)
\* The same loop with `payload.len() == 32` tested before the push. C13 tells
\* it from PingPush.
PingPushLate(y, id, payload, data) ==
    IF data = <<>> THEN [yamux |-> y, payload |-> payload]
    ELSE IF Len(payload) = PingSize
    THEN PingPush(YamuxWriteData(y, id, "ping", payload), id, <<Head(data)>>, Tail(data))
    ELSE PingPush(y, id, Append(payload, Head(data)), Tail(data))

\* The same loop without `payload.clear()`. C38 tells it from PingPush.
PingPushUncleared(y, id, payload, data) ==
    IF data = <<>> THEN [yamux |-> y, payload |-> payload]
    ELSE IF Len(payload) + 1 = PingSize
    THEN PingPush(YamuxWriteData(y, id, "ping", Append(payload, Head(data))), id,
                  Append(payload, Head(data)), Tail(data))
    ELSE PingPush(y, id, Append(payload, Head(data)), Tail(data))

PingPush(y, id, payload, data) ==
    IF data = <<>> THEN [yamux |-> y, payload |-> payload]
    ELSE IF Len(payload) + 1 = PingSize
    THEN PingPush(YamuxWriteData(y, id, "ping", Append(payload, Head(data))), id,
                  <<>>, Tail(data))
    ELSE PingPush(y, id, Append(payload, Head(data)), Tail(data))

StepPingIn(c, id, old, data) ==
    LET r == PingPush(c.yamux, id, old.payload, data)
    IN  Step(SetUserData([c EXCEPT !.yamux = r.yamux], id, PingIn(r.payload)),
             <<>>, <<>>, "loop")

\* One pass of the loop: the state is taken out (leaving Poisoned) and matched.
DispatchStep(c, id, data) ==
    LET old == c.yamux.substreams[id]
        p == SetUserData(c, id, Poisoned)
    IN  CASE old.st = "InboundNegotiating" -> StepInboundNegotiating(p, id, data)
          [] old.st = "NegotiationFailed" -> StepNegotiationFailed(p, id, data)
          [] old.st = "NotificationsOutNegotiating" ->
               StepNotificationsOutNegotiating(p, id, old, data)
          [] old.st = "NotificationsOutHandshakeRecv" ->
               StepNotificationsOutHandshakeRecv(p, id, old, data)
          [] old.st = "RequestOutNegotiating" -> StepRequestOutNegotiating(p, id, old, data)
          [] old.st = "RequestOut" -> StepRequestOut(p, id, old, data)
          [] old.st = "RequestInRecv" -> StepRequestInRecv(p, id, old, data)
          [] old.st = "NotificationsInHandshake" ->
               StepNotificationsInHandshake(p, id, old, data)
          [] old.st = "NotificationsInWait" ->
               Step(SetUserData(p, id, NotificationsInWait), <<>>, <<>>, "loop")
          [] old.st = "PingIn" -> StepPingIn(p, id, old, data)
          [] OTHER -> Step(p, data, <<>>, "panic")

\* `while !data.is_empty()`: the passes go on until the data is used up or a
\* pass leaves the loop.
RECURSIVE Dispatch(_, _, _)
DispatchNext(r, id) ==
    IF r.exit = "loop" THEN Dispatch(r.c, id, r.data) ELSE r

Dispatch(c, id, data) ==
    IF data = <<>> THEN Step(c, data, <<>>, "loop")
    ELSE DispatchNext(DispatchStep(c, id, data), id)

\* ------------------------------------------------------------ read_write

\* Where the decoding loop left: result is "ok" (the loop broke), "event",
\* "noise" or "yamux" (the `?` of an Err) or "panic". `seen` lists what each
\* call of Yamux::incoming_data reported during the call.
Decoded(c, total_read, events, result, seen) ==
    [c |-> c, total_read |-> total_read, events |-> events, result |-> result,
     seen |-> seen]

\* What incoming_data is handed when the decoded buffer is empty.
NoFrame == Frame("none", 0, <<>>)

\* One report of Yamux::incoming_data, with the state the substream it names
\* was in when the report was made and the frame at the head of the plaintext
\* incoming_data was handed.
Parsed(c, yd) ==
    LET s == IF yd.detail = "StreamReset" THEN yd.user_data
             ELSE IF yd.detail = "DataFrame" THEN c.yamux.substreams[yd.substream_id]
             ELSE Poisoned
    IN  [detail |-> IF yd.err THEN "Err" ELSE yd.detail, id |-> yd.substream_id,
         st |-> s.st, user_data |-> s.user_data,
         frame |-> IF c.encryption = <<>> THEN NoFrame ELSE Head(c.encryption)]

\* A StreamReset arm that returns without an event. C9 tells it from ResetEvent.
NoResetEvent(id, s) == <<>>

\* The event of the StreamReset arm for a request substream.
ResetEvent(id, s) == <<Response(id, s.user_data, "SubstreamReset")>>

\* The arms of `match user_data` of a StreamReset that fall through to `continue`.
ResetIgnored ==
    {"InboundNegotiating", "NegotiationFailed", "RequestInRecv",
     "NotificationsInHandshake", "NotificationsInWait", "PingIn"}

\* An injection whose Err is not propagated. C14 tells it from Inject.
InjectUnchecked(c, incoming) ==
    IF incoming.some
    THEN [InjectInbound(c.encryption, incoming.data, 0) EXCEPT !.err = FALSE]
    ELSE [err |-> FALSE, buffer |-> c.encryption, rest |-> <<>>, num_read |-> 0]

\* `*incoming_data = &incoming_data[num_read..]` with total_read += num_read.
Inject(c, incoming) ==
    IF incoming.some THEN InjectInbound(c.encryption, incoming.data, 0)
    ELSE [err |-> FALSE, buffer |-> c.encryption, rest |-> <<>>, num_read |-> 0]

RECURSIVE DecodeLoop(_, _, _, _)
\* The end of the DataFrame arm: an event returns before the frame is consumed,
\* otherwise the frame is consumed and the loop goes on.
DataFrame(d, bytes_read, rest, total, seen) ==
    IF d.exit = "return" THEN Decoded(d.c, total, d.events, "event", seen)
    ELSE IF d.exit = "panic" THEN Decoded(d.c, total, <<>>, "panic", seen)
    ELSE DecodeLoop([d.c EXCEPT !.encryption = ConsumeInbound(@, bytes_read)],
                    rest, total, seen)

DecodeLoop(c, incoming, total_read, parses) ==
    LET inj == Inject(c, incoming)
        c1 == [c EXCEPT !.encryption = inj.buffer]
        total == total_read + inj.num_read
        rest == [incoming EXCEPT !.data = inj.rest]
        yd == YamuxIncomingData(c1.yamux, c1.encryption)
        c2 == [c1 EXCEPT !.yamux = yd.yamux]
        consumed == [c2 EXCEPT !.encryption = ConsumeInbound(@, yd.bytes_read)]
        seen == Append(parses, Parsed(c1, yd))
    IN  IF inj.err THEN Decoded(c, total_read, <<>>, "noise", parses)
        ELSE IF yd.err THEN Decoded(c1, total, <<>>, "yamux", seen)
        ELSE CASE yd.detail = "None" ->
                    IF yd.bytes_read = 0
                    THEN Decoded(c2, total, <<>>, "ok", seen)
                    ELSE DecodeLoop(consumed, rest, total, seen)
               [] yd.detail = "IncomingSubstream" ->
                    DecodeLoop([consumed EXCEPT !.yamux = YamuxInsert(@, InboundNegotiating)],
                               rest, total, seen)
               [] yd.detail = "StreamReset" ->
                    IF IsRequest(yd.user_data)
                    THEN Decoded(c2, total, ResetEvent(yd.substream_id, yd.user_data),
                                 "event", seen)
                    ELSE IF yd.user_data.st \in ResetIgnored
                    THEN DecodeLoop(c2, rest, total, seen)
                    ELSE Decoded(c2, total, <<>>, "panic", seen)
               [] OTHER ->
                    DataFrame(Dispatch(c2, yd.substream_id, Head(c2.encryption).data),
                              yd.bytes_read, rest, total, seen)

\* Output regions that are not advanced past what was written. C8 tells it
\* from ShrinkOutgoing.
KeepOutgoing(out, written) == out

\* Output regions that stay as they were handed in, whatever was written.
\* C37 tells it from ShrinkOutgoing.
SameOutgoing(out, written) == <<out[1], out[2]>>

\* The output regions left after `written` bytes, region 0 being the next target.
ShrinkOutgoing(out, written) ==
    LET left == <<out[1] - Min(written, out[1]), out[2] - Max(written - out[1], 0)>>
    IN  IF left[1] = 0 THEN <<left[2], left[1]>> ELSE left

\* A flush that stops after the first buffer it has encrypted. C35 tells it
\* from EncryptLoop.
EncryptOnce(c, out, total_written) ==
    LET bytes_out == EncryptSizeConv(out[1] + out[2])
        ex == YamuxExtractOut(c.yamux, bytes_out)
    IN  IF bytes_out = 0 \/ ex.n = 0
        THEN [c |-> c, total_written |-> total_written]
        ELSE [c |-> [c EXCEPT !.yamux = ex.yamux],
              total_written |-> total_written + ex.n + NoiseOverhead]

RECURSIVE EncryptLoop(_, _, _)
EncryptLoop(c, out, total_written) ==
    LET bytes_out == EncryptSizeConv(out[1] + out[2])
        ex == YamuxExtractOut(c.yamux, bytes_out)
        written == ex.n + NoiseOverhead
    IN  IF bytes_out = 0 \/ ex.n = 0
        THEN [c |-> c, total_written |-> total_written]
        ELSE EncryptLoop([c EXCEPT !.yamux = ex.yamux], ShrinkOutgoing(out, written),
                         total_written + written)

\* The ReadWrite struct; result is "ok" when it is returned, otherwise the
\* Error variant ("noise", "yamux") or "panic".
ReadWrite(c, read_bytes, written_bytes, events, result, seen) ==
    [connection |-> c, read_bytes |-> read_bytes, written_bytes |-> written_bytes,
     wake_up_after |-> c.next_timeout, events |-> events, result |-> result,
     seen |-> seen]

\* An end of read_write that flushes the outgoing queue on the way out of an
\* event return too. C36 tells it from Flush.
FlushAlways(d, events, out) ==
    LET e == EncryptLoop(d.c, out, 0)
    IN  IF d.result \in {"ok", "event"}
        THEN ReadWrite(e.c, d.total_read, e.total_written, events \o d.events, "ok",
                       d.seen)
        ELSE ReadWrite(d.c, d.total_read, 0, events \o d.events, d.result, d.seen)

\* read_write from `// Decoding the incoming data.` on.
Flush(d, events, out) ==
    LET e == EncryptLoop(d.c, out, 0)
    IN  IF d.result = "ok"
        THEN ReadWrite(e.c, d.total_read, e.total_written, events, "ok", d.seen)
        ELSE ReadWrite(d.c, d.total_read, 0, events \o d.events,
                       IF d.result = "event" THEN "ok" ELSE d.result, d.seen)

DecodeAndFlush(c, events, incoming, out) ==
    Flush(DecodeLoop(c, incoming, 0, <<>>), events, out)

\* A read_write that goes on to decode and flush with the timeout event in
\* hand. C1 tells it from read_write.
read_write_without_return(c, now, pick, incoming, out) ==
    LET u == update_now(c, now, pick)
    IN  DecodeAndFlush(u.c, u.event, incoming, out)

\* A read_write that flushes the outgoing queue before it returns the timeout
\* event. C7 tells it from read_write.
read_write_flushing(c, now, pick, incoming, out) ==
    LET u == update_now(c, now, pick)
    IN  IF u.event # <<>>
        THEN Flush(Decoded(u.c, 0, <<>>, "ok", <<>>), u.event, out)
        ELSE DecodeAndFlush(u.c, <<>>, incoming, out)

\* A read_write that reads wake_up_after before update_now has run. C12 tells
\* it from read_write.
read_write_early_wake(c, now, pick, incoming, out) ==
    LET u == update_now(c, now, pick)
    IN  [(IF u.event # <<>>
          THEN ReadWrite(u.c, 0, 0, u.event, "ok", <<>>)
          ELSE DecodeAndFlush(u.c, <<>>, incoming, out))
         EXCEPT !.wake_up_after = c.next_timeout]

\* A read_write that decodes the inbound slice first and runs update_now on
\* what is left. C21 tells it from read_write.
read_write_decode_first(c, now, pick, incoming, out) ==
    LET r == DecodeAndFlush(c, <<>>, incoming, out)
        u == update_now(r.connection, now, pick)
    IN  IF r.result # "ok" \/ r.events # <<>>
        THEN r
        ELSE ReadWrite(u.c, r.read_bytes, r.written_bytes, u.event, "ok", r.seen)

read_write(c, now, pick, incoming, out) ==
    LET u == update_now(c, now, pick)
    IN  IF u.event # <<>>
        THEN ReadWrite(u.c, 0, 0, u.event, "ok", <<>>)
        ELSE DecodeAndFlush(u.c, <<>>, incoming, out)

\* ------------------------------------------------------- the environment

\* What the remote may put into one data frame of a substream in state `st`.
\* A substream in PingIn is sent no payload in this environment.
DataFor(st) ==
    CASE st = "InboundNegotiating" ->
             {<<"part">>, <<ReqProto>>, <<NotifProto>>, <<PingProto>>, <<NopeProto>>,
              <<"bad">>, <<NotifProto, "fr">>}
      [] st = "RequestOutNegotiating" ->
             {<<"part">>, <<"ok">>, <<"na">>, <<"bad">>, <<"ok", "fr">>}
      [] st = "NotificationsOutNegotiating" -> {<<"part">>, <<"ok">>, <<"na">>}
      [] st = "RequestOut" -> {<<"part">>, <<"fr">>, <<"bad">>}
      [] st = "NotificationsInHandshake" -> {<<"part">>, <<"fr">>, <<"bad">>}
      [] st = "NotificationsOutHandshakeRecv" -> {<<"part">>, <<"fr">>}
      [] st = "PingIn" -> {}
      [] st = "RequestInRecv" -> {<<"part">>, <<"fr">>, <<"bad">>}
      [] st = "NotificationsInWait" -> {<<"part">>, <<"fr">>}
      [] st = "NegotiationFailed" -> {<<"part">>, <<ReqProto>>, <<"fr">>, <<"bad">>}
      [] OTHER -> {<<"part">>}

\* The frames the remote may send to an engine in state c.
FramesFor(c) ==
    {Frame("other", 0, <<>>), Frame("garbage", 0, <<>>), Frame("corrupt", 0, <<>>)}
    \cup (IF c.yamux.next_id <= MaxSubstreams THEN {Frame("syn", 0, <<>>)} ELSE {})
    \cup {Frame("rst", id, <<>>) : id \in 1..(c.yamux.next_id - 1)}
    \cup UNION {{Frame("data", id, d) :
                    d \in DataFor(IF id \in Live(c) THEN c.yamux.substreams[id].st
                                  ELSE "closed")} :
                id \in 1..(c.yamux.next_id - 1)}

Syns(frames) == Cardinality({i \in DOMAIN frames : frames[i].kind = "syn"})

\* The inbound slices of one read_write call (Option<&[u8]>).
Inbounds(c) ==
    {[some |-> FALSE, data |-> <<>>]}
    \cup {[some |-> TRUE, data |-> d] :
            d \in {x \in UNION {[1..n -> FramesFor(c)] : n \in 0..MaxInbound} :
                      c.yamux.next_id + Syns(x) <= MaxSubstreams + 1}}

OutRegions == {<<0, 0>>, <<MaxOutLen, MaxOutLen>>}

\* ------------------------------------------------------ the state machine

Call(op, now, id, incoming, out, rw, expired) ==
    [op |-> op, now |-> now, id |-> id, incoming |-> incoming,
     in_some |-> incoming.some, in_len |-> BytesOf(incoming.data),
     out |-> out, read_bytes |-> rw.read_bytes, written_bytes |-> rw.written_bytes,
     wake_up_after |-> rw.wake_up_after, events |-> rw.events, result |-> rw.result,
     seen |-> rw.seen, expired |-> expired]

NoInbound == [some |-> FALSE, data |-> <<>>]

\* The engine is moved into read_write; on an Err or a panic it is dropped.
Dropped(c) ==
    [c EXCEPT !.encryption = <<>>, !.next_timeout = None,
              !.yamux = [substreams |-> [i \in {} |-> Poisoned], next_id |-> @.next_id,
                         out |-> <<>>]]

\* The ids opened by the remote during the call.
AcceptedBy(c1, c2) == c1.yamux.next_id..(c2.yamux.next_id - 1)

\* What an event is remembered as: its RequestError, "Ok", or its type.
Label(e) == IF e.type = "Response" THEN e.response ELSE e.type

Record(h, events) ==
    [id \in SubstreamIds |->
        LET sel == SelectSeq(events, LAMBDA e : e.id = id)
        IN  h[id] \o [i \in DOMAIN sel |-> Label(sel[i])]]

NoCall ==
    [op |-> "none", now |-> 0, id |-> 0, incoming |-> NoInbound,
     in_some |-> FALSE, in_len |-> 0,
     out |-> <<0, 0>>, read_bytes |-> 0, written_bytes |-> 0, wake_up_after |-> None,
     events |-> <<>>, result |-> "ok", seen |-> <<>>, expired |-> {}]

\* The pending requests whose deadline, as installed by add_request, is
\* reached at `now`.
Expired(c, now) ==
    {id \in Live(c) : /\ IsRequest(c.yamux.substreams[id])
                      /\ opened[id].by = "add_request"
                      /\ opened[id].deadline <= now}

\* Established as into_connection builds it from the Config.
NewConnection ==
    [encryption |-> <<>>,
     yamux |-> [substreams |-> [i \in {} |-> Poisoned], next_id |-> 1, out |-> <<>>],
     next_timeout |-> None,
     in_request_protocols |-> <<ReqProto>>,
     in_notifications_protocols |-> <<NotifProto>>,
     ping_protocol |-> PingProto]

\* The listener and the link before anything was sent.
NoPeer ==
    [conn |-> NewConnection, alive |-> TRUE,
     to_listener |-> <<>>, to_dialer |-> <<>>,
     events |-> <<>>, dialer_events |-> <<>>,
     protocol |-> [id \in SubstreamIds |-> ""],
     handshake |-> [id \in SubstreamIds |-> ""],
     syn |-> {},
     got |-> <<>>, fed |-> <<>>,
     reset_in |-> [id \in SubstreamIds |-> ""],
     fin |-> {}]

\* ----------------------------------------------- the link of two engines

\* The frames the listener receives for one buffer the dialer wrote out.
DialerWire(item, p) ==
    CASE item.what = "nego" /\ item.id \notin p.syn ->
             <<Frame("syn", 0, <<>>), Frame("data", item.id, <<p.protocol[item.id]>>)>>
      [] item.what = "nego" /\ item.id \in p.syn -> <<Frame("data", item.id, <<"part">>)>>
      [] item.what = "leb" -> <<Frame("data", item.id, <<"byte">>)>>
      [] item.what = "request" -> <<Frame("data", item.id, <<"fr">>)>>
      [] item.what = "handshake" -> <<Frame("data", item.id, item.data)>>
      [] item.what = "rst" -> <<Frame("rst", item.id, <<>>)>>
      [] OTHER -> <<Frame("other", 0, <<>>)>>

\* The frames the dialer receives for one buffer the listener wrote out.
ListenerWire(item, p) ==
    CASE item.what = "nego" ->
             <<Frame("data", item.id,
                     <<IF \E i \in DOMAIN SupportedProtocols(p.conn) :
                             SupportedProtocols(p.conn)[i] = p.protocol[item.id]
                       THEN "ok" ELSE "na">>)>>
      [] item.what = "rst" -> <<Frame("rst", item.id, <<>>)>>
      [] OTHER -> <<Frame("other", 0, <<>>)>>

RECURSIVE DialerFrames(_, _)
DialerFrames(items, p) ==
    IF items = <<>> THEN <<>>
    ELSE DialerWire(Head(items), p)
         \o DialerFrames(Tail(items),
                         [p EXCEPT !.syn = @ \cup {Head(items).id}])

RECURSIVE ListenerFrames(_, _)
ListenerFrames(items, p) ==
    IF items = <<>> THEN <<>>
    ELSE ListenerWire(Head(items), p) \o ListenerFrames(Tail(items), p)

\* The buffers a call wrote out whole: `queued` is the write queue before the
\* flush, `left` the queue the call left.
WrittenOut(queued, left) == SubSeq(queued, 1, Len(queued) - Len(left))

\* The inbound slice of a call: the frame at the head of the link, if any.
Arrived(link) ==
    [some |-> TRUE, data |-> IF link = <<>> THEN <<>> ELSE <<Head(link)>>]

\* The link once the call has read read_bytes of its head.
Taken(link, read_bytes) == IF read_bytes > 0 THEN Tail(link) ELSE link

\* What read_write returns to an engine in state c that is handed the head
\* of `link`: `rw` with room to write, `queued` with none (the write queue
\* before the flush).
Outcome(c, now, pick, link) ==
    [rw |-> read_write(c, now, pick, Arrived(link), <<MaxOutLen, MaxOutLen>>),
     queued |-> read_write(c, now, pick, Arrived(link), <<0, 0>>)]

\* The outcome of the next call of the listener (at None) and of the dialer
\* (at the substream its update_now finds).
Lookahead(c, now, p) ==
    [k \in {None} \cup (0..MaxSubstreams) |->
        IF k = None THEN Outcome(p.conn, now, 0, p.to_listener)
        ELSE Outcome(c, now, k, p.to_dialer)]

\* ------------------------------------------------- legacy_message/block.rs

\* Bounds of the digest items the encoder is given.
MaxByte == 2
MaxVecLen == 2
HashLen == 2
EngineIdLen == 4

DigestBytes == 0..MaxByte

RECURSIVE ByteStrings(_)
ByteStrings(n) ==
    IF n = 0 THEN {<<>>}
    ELSE {<<b>> \o s : b \in DigestBytes, s \in ByteStrings(n - 1)}

Vecs == UNION {ByteStrings(n) : n \in 0..MaxVecLen}
Hashes == ByteStrings(HashLen)
EngineIds == ByteStrings(EngineIdLen)
U32s == {0, 1, 258, 16777216}

Variants == {"ChangesTrieRoot", "PreRuntime", "Consensus", "Seal",
             "ChangesTrieSignal", "Other"}

\* ChangesTrieSignal::NewConfiguration(Option<ChangesTrieConfiguration>)
NewConfiguration(some, digest_interval, digest_levels) ==
    [some |-> some, digest_interval |-> digest_interval,
     digest_levels |-> digest_levels]

NoSignal == NewConfiguration(FALSE, 0, 0)

ChangesTrieSignals ==
    {NoSignal} \cup {NewConfiguration(TRUE, i, l) : i \in U32s, l \in U32s}

\* A DigestItem; the fields its variant does not have are empty.
DigestItem(variant, hash, engine, data, signal) ==
    [variant |-> variant, hash |-> hash, engine |-> engine, data |-> data,
     signal |-> signal]

DigestItems ==
    {DigestItem("ChangesTrieRoot", h, <<>>, <<>>, NoSignal) : h \in Hashes}
    \cup {DigestItem(v, <<>>, e, d, NoSignal) :
            v \in {"PreRuntime", "Consensus", "Seal"}, e \in EngineIds, d \in Vecs}
    \cup {DigestItem("ChangesTrieSignal", <<>>, <<>>, <<>>, s) :
            s \in ChangesTrieSignals}
    \cup {DigestItem("Other", <<>>, <<>>, d, NoSignal) : d \in Vecs}

\* The discriminants of DigestItemType.
DigestItemType(variant) ==
    CASE variant = "Other" -> 0
      [] variant = "ChangesTrieRoot" -> 2
      [] variant = "Consensus" -> 4
      [] variant = "Seal" -> 5
      [] variant = "PreRuntime" -> 6
      [] variant = "ChangesTrieSignal" -> 7

\* The derived Encode of DigestItemType: one byte, the discriminant.
EncodeDigestItemType(variant) == <<DigestItemType(variant) % 256>>

\* A decoder's outcome: a value and the input left, or an error.
DecodeOk(value, rest) == [ok |-> TRUE, value |-> value, rest |-> rest]
DecodeError == [ok |-> FALSE, value |-> <<>>, rest |-> <<>>]

\* A derived Decode that numbers the variants by their position.
DecodeDigestItemTypeByPosition(input) ==
    IF input = <<>> THEN DecodeError
    ELSE IF Head(input) > 5 THEN DecodeError
    ELSE DecodeOk(<<"Other", "ChangesTrieRoot", "Consensus", "Seal", "PreRuntime",
                    "ChangesTrieSignal">>[Head(input) + 1], Tail(input))

\* The derived Decode of DigestItemType: the variant whose discriminant the
\* byte is, an error for any other byte.
DecodeDigestItemType(input) ==
    IF input = <<>> THEN DecodeError
    ELSE IF \E v \in Variants : DigestItemType(v) % 256 = Head(input)
         THEN DecodeOk(CHOOSE v \in Variants : DigestItemType(v) % 256 = Head(input),
                       Tail(input))
         ELSE DecodeError

\* SCALE: a fixed-size byte array is written as it is.
EncodeArray(bytes) == bytes

DecodeArray(input, n) ==
    IF Len(input) < n THEN DecodeError
    ELSE DecodeOk(SubSeq(input, 1, n), SubSeq(input, n + 1, Len(input)))

\* SCALE: a compact length below 2^6 is one byte, below 2^14 two bytes.
EncodeCompact(n) ==
    IF n < 64 THEN <<4 * n>>
    ELSE <<(4 * n + 1) % 256, (4 * n + 1) \div 256>>

DecodeCompact(input) ==
    IF input = <<>> THEN DecodeError
    ELSE IF Head(input) % 4 = 0 THEN DecodeOk(Head(input) \div 4, Tail(input))
    ELSE IF Head(input) % 4 = 1 /\ Len(input) >= 2
         THEN DecodeOk((input[1] + 256 * input[2]) \div 4,
                       SubSeq(input, 3, Len(input)))
    ELSE DecodeError

\* SCALE: a Vec<u8> is its compact length and its bytes.
EncodeVec(data) == EncodeCompact(Len(data)) \o data

DecodeVec(input) ==
    LET len == DecodeCompact(input) IN
    IF ~len.ok THEN DecodeError ELSE DecodeArray(len.rest, len.value)

\* SCALE: a u32 is four bytes, least significant first.
EncodeU32(n) ==
    <<n % 256, (n \div 256) % 256, (n \div 65536) % 256, (n \div 16777216) % 256>>

DecodeU32(input) ==
    IF Len(input) < 4 THEN DecodeError
    ELSE DecodeOk(input[1] + 256 * input[2] + 65536 * input[3] + 16777216 * input[4],
                  SubSeq(input, 5, Len(input)))

\* The derived Encode of ChangesTrieSignal: the index of its one variant, then
\* the Option, 0 for None and 1 followed by the two fields for Some.
EncodeChangesTrieSignal(signal) ==
    <<0>> \o (IF signal.some
              THEN <<1>> \o EncodeU32(signal.digest_interval)
                         \o EncodeU32(signal.digest_levels)
              ELSE <<0>>)

DecodeChangesTrieSignal(input) ==
    IF Len(input) < 2 \/ input[1] # 0 THEN DecodeError
    ELSE IF input[2] = 0 THEN DecodeOk(NoSignal, SubSeq(input, 3, Len(input)))
    ELSE IF input[2] # 1 THEN DecodeError
    ELSE LET interval == DecodeU32(SubSeq(input, 3, Len(input)))
             levels == DecodeU32(interval.rest)
         IN  IF ~interval.ok \/ ~levels.ok THEN DecodeError
             ELSE DecodeOk(NewConfiguration(TRUE, interval.value, levels.value),
                           levels.rest)

\* Encode for DigestItemRef, which DigestItem's encode goes through: the type,
\* then the variant's fields.
encode(item) ==
    EncodeDigestItemType(item.variant)
    \o (CASE item.variant = "ChangesTrieRoot" -> EncodeArray(item.hash)
          [] item.variant \in {"Consensus", "Seal", "PreRuntime"} ->
                EncodeArray(item.engine) \o EncodeVec(item.data)
          [] item.variant = "ChangesTrieSignal" ->
                EncodeChangesTrieSignal(item.signal)
          [] item.variant = "Other" -> EncodeVec(item.data))

\* ([u8; 4], Vec<u8>): the array, then the vector.
DecodeVals(input) ==
    LET val == DecodeArray(input, EngineIdLen)
        data == DecodeVec(val.rest)
    IN  IF ~val.ok \/ ~data.ok THEN DecodeError
        ELSE DecodeOk(<<val.value, data.value>>, data.rest)

\* Decode for DigestItem: the type, then the fields of the variant it names.
decode(input) ==
    LET item_type == DecodeDigestItemType(input) IN
    IF ~item_type.ok THEN DecodeError
    ELSE CASE item_type.value = "ChangesTrieRoot" ->
                LET h == DecodeArray(item_type.rest, HashLen) IN
                IF ~h.ok THEN DecodeError
                ELSE DecodeOk(DigestItem("ChangesTrieRoot", h.value, <<>>, <<>>,
                                         NoSignal), h.rest)
           [] item_type.value \in {"PreRuntime", "Consensus", "Seal"} ->
                LET vals == DecodeVals(item_type.rest) IN
                IF ~vals.ok THEN DecodeError
                ELSE DecodeOk(DigestItem(item_type.value, <<>>, vals.value[1],
                                         vals.value[2], NoSignal), vals.rest)
           [] item_type.value = "ChangesTrieSignal" ->
                LET s == DecodeChangesTrieSignal(item_type.rest) IN
                IF ~s.ok THEN DecodeError
                ELSE DecodeOk(DigestItem("ChangesTrieSignal", <<>>, <<>>, <<>>,
                                         s.value), s.rest)
           [] item_type.value = "Other" ->
                LET d == DecodeVec(item_type.rest) IN
                IF ~d.ok THEN DecodeError
                ELSE DecodeOk(DigestItem("Other", <<>>, <<>>, d.value, NoSignal),
                              d.rest)

\* What `digest` holds while no item is being encoded.
NoItem == DigestItem("none", <<>>, <<>>, <<>>, NoSignal)
NoDigest == [step |-> "none", item |-> NoItem, bytes |-> <<>>,
             result |-> "none", decoded |-> NoItem, rest |-> <<>>]

\* ---------------------------------------------------------------- steps

Init ==
    /\ conn = NewConnection
    /\ alive = TRUE
    /\ clock = 0
    /\ pc = "idle"
    /\ last = NoCall
    /\ hist = [id \in SubstreamIds |-> <<>>]
    /\ opened = [id \in SubstreamIds |-> [by |-> "none", deadline |-> None, user_data |-> 0]]
    /\ pinged = 0
    /\ peer = NoPeer
    /\ ahead = Lookahead(NewConnection, 0, NoPeer)
    /\ digest = NoDigest

\* Time passes on the host.
Tick ==
    /\ pc = "idle"
    /\ clock < TickLen * MaxTick
    /\ clock' = clock + TickLen
    /\ UNCHANGED <<conn, alive, pc, last, hist, opened, pinged, peer, ahead, digest>>

\* The host has looked at the outcome of the call and goes on.
HostResume ==
    /\ pc = "returned"
    /\ alive
    /\ pc' = "idle"
    /\ last' = NoCall
    /\ UNCHANGED <<conn, alive, clock, hist, opened, pinged, peer, ahead, digest>>

HostAddRequest ==
    /\ pc = "idle"
    /\ conn.yamux.next_id <= MaxSubstreams
    /\ Len(conn.yamux.out) <= MaxOutQueue
    /\ \E user_data \in UserTags, request \in Requests :
         /\ conn' = add_request(conn, clock, request, user_data)
         /\ last' = Call("add_request", clock, conn.yamux.next_id, NoInbound, <<0, 0>>,
                         ReadWrite(conn', 0, 0, <<>>, "ok", <<>>), {})
         /\ opened' = [opened EXCEPT ![conn.yamux.next_id] =
                          [by |-> "add_request", deadline |-> clock + RequestTimeout,
                           user_data |-> user_data]]
    /\ pc' = "returned"
    /\ UNCHANGED <<alive, clock, hist, pinged, peer, ahead, digest>>

HostOpenNotifications ==
    /\ pc = "idle"
    /\ conn.yamux.next_id <= MaxSubstreams
    /\ Len(conn.yamux.out) <= MaxOutQueue
    /\ \E handshake \in Handshakes :
         conn' = open_notifications_substream(conn, clock, handshake)
    /\ last' = Call("open_notifications_substream", clock, conn.yamux.next_id,
                    NoInbound, <<0, 0>>, ReadWrite(conn', 0, 0, <<>>, "ok", <<>>), {})
    /\ opened' = [opened EXCEPT ![conn.yamux.next_id] =
                     [by |-> "open_notifications_substream",
                      deadline |-> clock + RequestTimeout, user_data |-> 0]]
    /\ pc' = "returned"
    /\ UNCHANGED <<alive, clock, hist, pinged, peer, ahead, digest>>

HostReadWrite ==
    /\ pc = "idle"
    /\ \E incoming \in Inbounds(conn), out \in OutRegions :
       \E pick \in (IF Cardinality(TimedOut(conn, clock)) > 1 THEN TimedOut(conn, clock)
                    ELSE {0}) :
         /\ incoming.data = <<>> \/ Len(conn.yamux.out) <= MaxOutQueue
         /\ \E rw \in {read_write(conn, clock, pick, incoming, out)} :
                /\ conn' = IF rw.result = "ok" THEN rw.connection ELSE Dropped(conn)
                /\ alive' = (rw.result = "ok")
                /\ last' = Call("read_write", clock, 0, incoming, out, rw,
                                Expired(conn, clock))
                /\ hist' = Record(hist, rw.events)
                /\ opened' = [id \in SubstreamIds |->
                                 IF id \in AcceptedBy(conn, rw.connection)
                                 THEN [by |-> "remote", deadline |-> None, user_data |-> 0]
                                 ELSE opened[id]]
    /\ pc' = "returned"
    /\ UNCHANGED <<clock, pinged, peer, ahead, digest>>

Next ==
    \/ Tick
    \/ HostAddRequest
    \/ HostOpenNotifications
    \/ HostReadWrite
    \/ HostResume

Spec == Init /\ [][Next]_vars

\* ----------------------------------------------- a remote that pings

\* The bytes from..from+n-1 of the stream the remote sends on its ping
\* substream; a byte is modelled by its position in the stream.
PingBytes(from, n) == [j \in 1..n |-> from + j - 1]

\* The remote opens a substream and negotiates the ping protocol on it.
PingOpen ==
    /\ pc = "idle"
    /\ conn.yamux.next_id = 1
    /\ \E out \in OutRegions :
       \E rw \in {read_write(conn, clock, 0,
                             [some |-> TRUE,
                              data |-> <<Frame("syn", 0, <<>>),
                                         Frame("data", 1, <<PingProto>>)>>],
                             out)} :
         /\ conn' = rw.connection
         /\ last' = Call("read_write", clock, 0, NoInbound, out, rw, {})
         /\ hist' = Record(hist, rw.events)
    /\ pc' = "returned"
    /\ UNCHANGED <<alive, clock, opened, pinged, peer, ahead, digest>>

\* The remote sends the next n1 + n2 bytes of its stream, in one data frame or
\* in two, within one call of read_write; the host offers no room for output.
PingFeed ==
    /\ pc = "idle"
    /\ 1 \in Live(conn) /\ conn.yamux.substreams[1].st = "PingIn"
    /\ \E n1 \in 1..MaxPingFrame, n2 \in 0..MaxPingFrame :
         /\ pinged + n1 + n2 <= PingSize * MaxPingBlocks
         /\ \E rw \in {read_write(conn, clock, 0,
                          [some |-> TRUE,
                           data |-> <<Frame("data", 1, PingBytes(pinged + 1, n1))>>
                                    \o (IF n2 = 0 THEN <<>>
                                        ELSE <<Frame("data", 1,
                                                     PingBytes(pinged + n1 + 1, n2))>>)],
                          <<0, 0>>)} :
              /\ conn' = rw.connection
              /\ last' = [Call("read_write", clock, 0, NoInbound, <<0, 0>>, rw, {})
                            EXCEPT !.in_len = n1 + n2 + (IF n2 = 0 THEN 1 ELSE 2)]
              /\ hist' = Record(hist, rw.events)
         /\ pinged' = pinged + n1 + n2
         /\ UNCHANGED <<peer, ahead, digest>>
    /\ pc' = "returned"
    /\ UNCHANGED <<alive, clock, opened>>

PingNext ==
    \/ PingOpen
    \/ PingFeed
    \/ HostResume

SpecPing == Init /\ [][PingNext]_vars

\* ------------------------------------------------------------ properties

\* A call of read_write has just ended (returned, failed or panicked).
Ended == pc = "returned" /\ last.op = "read_write"
\* A call of read_write has just returned a ReadWrite.
Returned == Ended /\ last.result = "ok"

IsTimeout(e) == e.type = "Response" /\ e.response = "Timeout"
Count(h, x) == Cardinality({i \in DOMAIN h : h[i] = x})
\* x, once recorded for a substream, is recorded once and is the last record.
Final(h, x) == Count(h, x) = 0 \/ (Count(h, x) = 1 /\ h[Len(h)] = x)
RequestStates == {"RequestOutNegotiating", "RequestOut"}
\* The deadlines of the live substreams that satisfy P.
Deadlines(c, P(_)) ==
    {c.yamux.substreams[id].timeout : id \in {i \in Live(c) : P(c.yamux.substreams[i])}}

\* C1: a call of read_write returns at most one event.  The engine holds no
\* field in which an event could wait for a later call: an event is either
\* returned by the call that produced it or it does not exist.
C1_AtMostOneEvent == Ended => Len(last.events) <= 1

\* A call that is handed a frame while a request has expired, and returns the
\* one Timeout event.
C1_Witness ==
    /\ Returned /\ last.expired # {} /\ last.in_len > 0
    /\ Len(last.events) = 1

\* C2 (amended): a call of read_write entered with at least one request whose
\* deadline is reached returns exactly one event, the Timeout of one of these
\* requests with its tag; the other expired requests wait for later calls.
\* A substream gets at most one Timeout, and no event after it.
C2_OneTimeoutPerCall ==
    /\ (Ended /\ last.expired # {}) =>
           /\ last.result = "ok"
           /\ Len(last.events) = 1
           /\ IsTimeout(last.events[1])
           /\ last.events[1].id \in last.expired
           /\ last.events[1].user_data = opened[last.events[1].id].user_data
    /\ \A id \in SubstreamIds : Final(hist[id], "Timeout")

\* Two requests with the same deadline have each got their Timeout, the
\* second one in the call that just returned.
C2_Witness ==
    /\ Returned /\ Cardinality(last.expired) = 1
    /\ \A id \in SubstreamIds : Count(hist[id], "Timeout") = 1
    /\ opened[1].deadline = opened[2].deadline

\* C2 as stated: every request whose deadline is reached when read_write is
\* called has its Timeout once that call returns.  It fails when two requests
\* have expired: the call returns the Timeout of one of them only.
C2_EveryExpiredRequestTimesOut ==
    Returned => \A id \in last.expired : Count(hist[id], "Timeout") = 1

\* C3: a Timeout event is returned only by a call whose `now` has reached the
\* deadline installed for that request by add_request.
C3_NoTimeoutBeforeDeadline ==
    Ended => \A i \in DOMAIN last.events :
                IsTimeout(last.events[i]) =>
                    /\ opened[last.events[i].id].by = "add_request"
                    /\ opened[last.events[i].id].deadline <= last.now

\* A call returns a Timeout while another request, whose deadline is still
\* ahead, stays pending.
C3_Witness ==
    /\ Returned /\ Len(last.events) = 1 /\ IsTimeout(last.events[1])
    /\ \E id \in Live(conn) :
          /\ IsRequest(conn.yamux.substreams[id])
          /\ conn.yamux.substreams[id].timeout > last.now

\* C4 as stated: next_timeout, when present, is no later than the deadline of
\* any substream in RequestOutNegotiating, RequestOut or
\* NotificationsOutNegotiating.  It fails: the recomputation in update_now
\* leaves NotificationsOutNegotiating out.
C4_NextWakeNoLaterThanDeadlines ==
    conn.next_timeout # None =>
        \A t \in Deadlines(conn, HasDeadline) : conn.next_timeout <= t

C6_NoWakeUpOnlyWithoutDeadlines ==
    (Returned /\ last.wake_up_after = None) => Deadlines(conn, HasDeadline) = {}

\* C7: a call of read_write that returns the Timeout of a request returns at
\* once: it has read no byte of the inbound slice, handed nothing to the
\* multiplexer to parse, written no byte, and returns that event alone.
C7_TimeoutReturnsAtOnce ==
    (Ended /\ \E i \in DOMAIN last.events : IsTimeout(last.events[i])) =>
        /\ last.result = "ok"
        /\ last.read_bytes = 0
        /\ last.written_bytes = 0
        /\ last.seen = <<>>
        /\ Len(last.events) = 1

\* A Timeout is returned by a call that was given bytes to read and room to
\* write, with the reset of the request waiting in the outgoing queue.
C7_Witness ==
    /\ Returned /\ Len(last.events) = 1 /\ IsTimeout(last.events[1])
    /\ last.in_len > 0 /\ last.out # <<0, 0>>
    /\ conn.yamux.out # <<>>

\* C8: the ReadWrite returned by read_write has read_bytes no larger than the
\* inbound slice and written_bytes no larger than the two output regions
\* together.
C8_BytesWithinSlices ==
    Returned => /\ last.read_bytes <= last.in_len
                /\ last.written_bytes <= last.out[1] + last.out[2]

\* A call reads its whole inbound slice and writes past the first output
\* region into the second.
C8_Witness ==
    /\ Returned /\ last.in_len > 0 /\ last.read_bytes = last.in_len
    /\ last.written_bytes > last.out[1] /\ last.out[1] > 0

\* The reports of a StreamReset made to the call that just ended.
ResetsSeen == {i \in DOMAIN last.seen : last.seen[i].detail = "StreamReset"}

\* C9: when the multiplexer reports the reset of a substream in
\* RequestOutNegotiating or RequestOut, the call returns there and then with
\* Response{SubstreamReset} carrying the substream's id and the tag given to
\* add_request.  A substream gets that event at most once, and none after it.
C9_ResetOfRequest ==
    /\ Ended =>
         \A i \in ResetsSeen :
            last.seen[i].st \in RequestStates =>
                /\ last.result = "ok"
                /\ i = Len(last.seen)
                /\ last.events = <<Response(last.seen[i].id,
                                            opened[last.seen[i].id].user_data,
                                            "SubstreamReset")>>
    /\ \A id \in SubstreamIds : Final(hist[id], "SubstreamReset")

\* A request that was being answered (RequestOut) is reset by the remote and
\* the call returns the SubstreamReset.
C9_Witness ==
    /\ Returned
    /\ \E i \in ResetsSeen : last.seen[i].st = "RequestOut"
    /\ Len(last.events) = 1 /\ last.events[1].response = "SubstreamReset"

\* C10 as stated: when the multiplexer reports the reset of a substream in any
\* other state, the call drops it without an event for that substream and
\* goes on to return.  It fails for NotificationsOutNegotiating and
\* NotificationsOutHandshakeRecv, where the call panics.
C10_ResetElsewhereIsSilent ==
    Ended =>
        \A i \in ResetsSeen :
            last.seen[i].st \notin RequestStates =>
                /\ last.result = "ok"
                /\ \A j \in DOMAIN last.events : last.events[j].id # last.seen[i].id

\* The reset of an inbound substream is dropped and the call returns.
C10_Witness ==
    /\ Returned
    /\ \E i \in ResetsSeen : last.seen[i].st \in ResetIgnored

\* C11: between the host's calls, that is after add_request,
\* open_notifications_substream or a read_write that returned, every
\* substream of the multiplexer holds a state other than Poisoned; this
\* includes the returns with an event and the steps that reset a substream.
C11_NoPoisonedBetweenCalls ==
    (pc = "idle" \/ last.result = "ok") =>
        \A id \in Live(conn) : conn.yamux.substreams[id].st # "Poisoned"

\* read_write returned the response of a request from inside the dispatch of
\* its substream, which took the state out and put NegotiationFailed back,
\* while a second substream is alive.
C11_Witness ==
    /\ Returned /\ Len(last.events) = 1 /\ last.events[1].response = "Ok"
    /\ last.events[1].id \in Live(conn)
    /\ conn.yamux.substreams[last.events[1].id].st = "NegotiationFailed"
    /\ Cardinality(Live(conn)) = 2

\* The call that just returned gave no event and moved no byte.
Idle == Returned /\ last.events = <<>> /\ last.read_bytes = 0 /\ last.written_bytes = 0

\* read_write called once more on the engine as it was returned, with the
\* `now`, the inbound slice and the output regions of the call that returned.
Again == read_write(conn, last.now, 0, last.incoming, last.out)

\* C12: when read_write returns no event, read_bytes = 0 and
\* written_bytes = 0, the same call made again on the returned engine returns
\* the same (no event, zero counts, the same wake_up_after) and the engine it
\* returns is the engine it was given.
C12_FixedPoint ==
    Idle => /\ Again.result = "ok"
            /\ Again.events = <<>>
            /\ Again.read_bytes = 0
            /\ Again.written_bytes = 0
            /\ Again.wake_up_after = last.wake_up_after
            /\ Again.connection = conn

\* A call that moved nothing although a deadline is pending and the
\* multiplexer has bytes waiting to be written (the host offered no room).
C12_Witness ==
    /\ Idle /\ last.wake_up_after # None
    /\ conn.yamux.out # <<>>
    /\ Live(conn) # {}

\* The blocks waiting in the write queue of substream id.
PingQueued(id) ==
    SelectSeq(conn.yamux.out, LAMBDA item : item.id = id /\ item.what = "ping")

\* C13: once the remote has sent n bytes on its ping substream, in frames and
\* calls cut anywhere, n \div 32 blocks of 32 bytes have been put on the write
\* queue of that substream, block i holding bytes 32*(i-1)+1 .. 32*i of the
\* stream, in order; the bytes of an unfinished block wait in the substream's
\* state, and no event was returned for the substream.
C13_PingEcho ==
    /\ Len(PingQueued(1)) = pinged \div PingSize
    /\ \A i \in DOMAIN PingQueued(1) :
          PingQueued(1)[i].data = PingBytes(PingSize * (i - 1) + 1, PingSize)
    /\ pinged > 0 =>
          conn.yamux.substreams[1] =
              PingIn(PingBytes(PingSize * (pinged \div PingSize) + 1, pinged % PingSize))
    /\ hist[1] = <<>> /\ last.events = <<>> /\ last.result = "ok"

\* Two whole blocks have arrived, the last bytes in a call that carried two
\* frames and ended a block in the middle of a frame.
C13_Witness ==
    /\ pc = "returned" /\ pinged = PingSize * 2
    /\ Len(PingQueued(1)) = 2
    /\ Len(last.seen) = 3
    /\ (pinged - (last.in_len - 2)) % PingSize # 0

\* The call that just ended failed with an Error.
Failed == Ended /\ last.result \in {"noise", "yamux"}

\* C14: read_write fails with Error::Noise when the cipher refuses the inbound
\* bytes and with Error::Yamux when the multiplexer refuses the plaintext.  A
\* call handed bytes the cipher refuses never returns normally without an
\* event.  The failed call returns no ReadWrite and no event, and the engine,
\* moved into the call, is gone: no operation can follow.
C14_ErrorsAreTerminal ==
    Ended =>
        /\ (\E i \in DOMAIN last.seen : last.seen[i].detail = "Err")
              <=> last.result = "yamux"
        /\ last.result = "noise" =>
              \E i \in DOMAIN last.incoming.data : last.incoming.data[i].kind = "corrupt"
        /\ (last.incoming.data # <<>> /\ Head(last.incoming.data).kind = "corrupt") =>
              (last.result = "noise" \/ last.events # <<>> \/ last.result = "panic")
        /\ Failed => /\ ~alive
                     /\ last.events = <<>>
                     /\ Live(conn) = {}
                     /\ ~ENABLED Next

\* The multiplexer refuses a frame while a request of the host is pending.
C14_Witness ==
    /\ Ended /\ last.result = "yamux"
    /\ opened[1].by = "add_request" /\ hist[1] = <<>>

\* The RequestError values of a failure that is scoped to one substream.
SubstreamFailures ==
    {"NegotiationError", "ProtocolNotAvailable", "SubstreamReset",
     "ResponseLebError", "Timeout"}

\* The call that just returned reported a failure of one request.
FailureReported ==
    /\ Returned /\ last.events # <<>>
    /\ Head(last.events).type = "Response"
    /\ Head(last.events).response \in SubstreamFailures

\* The items queued for writing on substream id.
WriteQueue(y, id) == SelectSeq(y.out, LAMBDA item : item.id = id)

\* C15: a call of read_write that reports a failure scoped to substream S
\* (negotiation error, protocol not available, reset by the peer, framed-reader
\* error, timeout) reports that one event, leaves S reset, and hands the
\* engine back for later calls.  The failure touches S only: every other
\* substream, unless the same call dispatched an earlier frame to it, has the
\* state, the deadline and the write queue it had before the call.
C15_FailureIsScoped ==
    [][(pc = "idle" /\ FailureReported') =>
          LET S == Head(last'.events).id
              dispatched == {last'.seen[i].id : i \in DOMAIN last'.seen}
          IN  /\ Len(last'.events) = 1
              /\ S \in Live(conn) \/ Head(last'.events).response = "SubstreamReset"
              /\ S \notin Live(conn')
              /\ \A T \in Live(conn) \ ({S} \cup dispatched) :
                    /\ T \in Live(conn')
                    /\ conn'.yamux.substreams[T] = conn.yamux.substreams[T]
                    /\ WriteQueue(conn'.yamux, T) = WriteQueue(conn.yamux, T)
              /\ alive' /\ pc' = "returned"]_vars

\* A request failed while another substream with a deadline and queued bytes
\* is open.
C15_Witness ==
    /\ FailureReported
    /\ Head(last.events).response = "ResponseLebError"
    /\ \E T \in Live(conn) :
          /\ HasDeadline(conn.yamux.substreams[T])
          /\ WriteQueue(conn.yamux, T) # <<>>

\* The host has just opened a substream.
Opening == pc = "returned" /\ last.op \in {"add_request", "open_notifications_substream"}

\* C16: add_request and open_notifications_substream called at time now give
\* the new substream the deadline now + 20s, and afterwards next_timeout is
\* present and is the lesser of its previous value (absent counting as
\* infinity) and now + 20s.
C16_OpeningLowersNextWake ==
    [][(pc = "idle" /\ Opening') =>
          LET deadline == last'.now + RequestTimeout
          IN  /\ last'.id \notin Live(conn)
              /\ last'.id \in Live(conn')
              /\ conn'.yamux.substreams[last'.id].timeout = deadline
              /\ conn'.next_timeout # None
              /\ conn'.next_timeout =
                    IF conn.next_timeout = None THEN deadline
                    ELSE Min(conn.next_timeout, deadline)]_vars

\* A substream was opened while an earlier deadline was cached: the cached
\* value stays.
C16_Witness ==
    /\ Opening /\ last.op = "open_notifications_substream"
    /\ conn.next_timeout # None
    /\ conn.next_timeout < last.now + RequestTimeout

\* ------------------------------------------ two engines, looped read_write

\* A dialer (conn) and a listener (peer.conn) built from the same Config.  What
\* one engine writes out is what the other is handed as inbound, in order.
\* The bytes on the link are those of the cipher, the multiplexer and the
\* negotiation (contract); a queued buffer crosses the link once it has been
\* written out whole.

\* The protocols the dialer asks for.
RequestProtocols == {ReqProto, NopeProto}

\* The frames a call handed to incoming_data, in the order of the calls.
Fed(seen) ==
    LET handed == SelectSeq(seen, LAMBDA e : e.frame # NoFrame)
    IN  [i \in DOMAIN handed |-> handed[i].frame]

\* Nothing is in flight and nothing is left for a read_write call to do.
Quiet ==
    /\ peer.to_listener = <<>> /\ peer.to_dialer = <<>>
    /\ conn.yamux.out = <<>> /\ peer.conn.yamux.out = <<>>
    /\ conn.encryption = <<>> /\ peer.conn.encryption = <<>>

\* The lookahead of the state a step leads to; a step that changes neither
\* engine nor the link nor the clock leaves it as it is.
Looked ==
    /\ ahead' = IF <<conn', clock', peer'>> = <<conn, clock, peer>> THEN ahead
                ELSE Lookahead(conn', clock', peer')
    /\ UNCHANGED digest

PairAddRequest ==
    /\ pc = "idle" /\ alive
    /\ conn.yamux.next_id <= MaxSubstreams
    /\ \E user_data \in UserTags, protocol \in RequestProtocols, request \in Requests :
         /\ conn' = add_request(conn, clock, request, user_data)
         /\ opened' = [opened EXCEPT ![conn.yamux.next_id] =
                          [by |-> "add_request", deadline |-> clock + RequestTimeout,
                           user_data |-> user_data]]
         /\ peer' = [peer EXCEPT !.protocol[conn.yamux.next_id] = protocol]
    /\ UNCHANGED <<alive, clock, pc, last, hist, pinged>>
    /\ Looked

PairOpenNotifications ==
    /\ pc = "idle" /\ alive
    /\ conn.yamux.next_id <= MaxSubstreams
    /\ \E handshake \in Handshakes :
         /\ conn' = open_notifications_substream(conn, clock, handshake)
         /\ peer' = [peer EXCEPT !.protocol[conn.yamux.next_id] = NotifProto,
                                 !.handshake[conn.yamux.next_id] = handshake]
    /\ opened' = [opened EXCEPT ![conn.yamux.next_id] =
                     [by |-> "open_notifications_substream",
                      deadline |-> clock + RequestTimeout, user_data |-> 0]]
    /\ UNCHANGED <<alive, clock, pc, last, hist, pinged>>
    /\ Looked

\* One read_write call of the dialer's loop: what it does to the dialer and
\* to the link.
DialerCall ==
    /\ pc = "idle" /\ alive
    /\ \E pick \in (IF Cardinality(TimedOut(conn, clock)) > 1 THEN TimedOut(conn, clock)
                    ELSE {0}) :
       \E rw \in {ahead[pick].rw} :
       \E out \in {WrittenOut(ahead[pick].queued.connection.yamux.out,
                              rw.connection.yamux.out)} :
         /\ conn' = IF rw.result = "ok" THEN rw.connection ELSE Dropped(conn)
         /\ alive' = (rw.result = "ok")
         /\ hist' = Record(hist, rw.events)
         /\ peer' = [peer EXCEPT
                        !.to_dialer = Taken(@, rw.read_bytes),
                        !.to_listener = @ \o DialerFrames(out, peer),
                        !.syn = @ \cup {out[i].id : i \in DOMAIN out},
                        !.dialer_events = @ \o rw.events]
    /\ UNCHANGED <<clock, pc, last, opened, pinged>>

PairDialer == DialerCall /\ Looked

\* One read_write call of the listener's loop: what it does to the listener
\* and to the link.
ListenerCall ==
    /\ pc = "idle" /\ peer.alive
    /\ \E rw \in {ahead[None].rw} :
       \E queued \in {ahead[None].queued.connection.yamux.out} :
       \E out \in {WrittenOut(queued, rw.connection.yamux.out)} :
         peer' = [peer EXCEPT
                    !.conn = IF rw.result = "ok" THEN rw.connection ELSE Dropped(@),
                    !.alive = (rw.result = "ok"),
                    !.to_listener = Taken(@, rw.read_bytes),
                    !.got = @ \o (IF rw.read_bytes > 0 THEN <<Head(peer.to_listener)>>
                                  ELSE <<>>),
                    !.fed = @ \o Fed(rw.seen),
                    !.to_dialer = @ \o ListenerFrames(out, peer),
                    !.events = @ \o rw.events,
                    !.reset_in = [id \in SubstreamIds |->
                                    IF \E i \in DOMAIN rw.seen :
                                          /\ rw.seen[i].detail = "StreamReset"
                                          /\ rw.seen[i].id = id
                                    THEN (CHOOSE e \in {rw.seen[i] : i \in DOMAIN rw.seen} :
                                             e.detail = "StreamReset" /\ e.id = id).st
                                    ELSE @[id]],
                    !.fin = @ \cup {queued[i].id :
                                      i \in {j \in DOMAIN queued : queued[j].what = "fin"}}]
    /\ UNCHANGED <<conn, alive, clock, pc, last, hist, opened, pinged>>

PairListener == ListenerCall /\ Looked

\* Time passes once the two loops have nothing left to do.
PairTick ==
    /\ pc = "idle"
    /\ Quiet
    /\ clock < TickLen * MaxTick
    /\ clock' = clock + TickLen
    /\ UNCHANGED <<conn, alive, pc, last, hist, opened, pinged, peer>>
    /\ Looked

PairNext ==
    \/ PairAddRequest
    \/ PairOpenNotifications
    \/ PairDialer
    \/ PairListener
    \/ PairTick

\* The two engines and the link: vars without the lookahead, which they
\* determine.
link == <<conn, alive, clock, pc, last, hist, opened, pinged, peer>>

\* Each loop keeps calling read_write while a call has something to do.
SpecPair ==
    /\ Init /\ [][PairNext]_vars
    /\ WF_link(DialerCall) /\ WF_link(ListenerCall)

\* The events the listener returned for substream id, and the dialer's.
ListenerEvents(id) == SelectSeq(peer.events, LAMBDA e : e.id = id)
DialerEvents(id) == SelectSeq(peer.dialer_events, LAMBDA e : e.id = id)

\* The state of the listener's substream id; for a substream the dialer has
\* reset, the state it was in when the reset arrived.
ListenerState(id) ==
    IF id \in Live(peer.conn) THEN peer.conn.yamux.substreams[id].st
    ELSE peer.reset_in[id]

C18_RequestArrives ==
    \A id \in SubstreamIds :
        (peer.protocol[id] = ReqProto) ~>
            /\ clock < opened[id].deadline
            /\ \E i \in DOMAIN peer.events :
                  /\ peer.events[i].type = "RequestIn"
                  /\ peer.events[i].id = id
                  /\ peer.events[i].protocol = ReqProto

\* The request has reached the listener, which holds its substream in
\* RequestInRecv and has returned nothing; the deadline of the request is
\* reached and neither loop has anything left to do.
C18_Witness ==
    /\ Quiet
    /\ peer.protocol[1] = ReqProto
    /\ 1 \in Live(peer.conn)
    /\ peer.conn.yamux.substreams[1].st = "RequestInRecv"
    /\ peer.events = <<>>
    /\ 1 \in Live(conn) /\ conn.yamux.substreams[1].st = "RequestOut"
    /\ clock >= opened[1].deadline

\* C19: once the dialer has called add_request for a protocol the listener
\* does not offer, the dialer's looped read_write calls eventually return
\* Response{ProtocolNotAvailable} with the request's id and user_data, the
\* dialer's substream is reset, the listener's substream is in
\* NegotiationFailed (until the dialer's reset removes it) with its write
\* side closed, and the listener never returns an event for it.
C19_ProtocolNotAvailable ==
    \A id \in SubstreamIds :
        /\ (peer.protocol[id] = NopeProto) ~>
               /\ DialerEvents(id) =
                     <<Response(id, opened[id].user_data, "ProtocolNotAvailable")>>
               /\ id \notin Live(conn)
               /\ ListenerState(id) = "NegotiationFailed"
               /\ id \in peer.fin
        /\ [](peer.protocol[id] = NopeProto =>
                 /\ ListenerEvents(id) = <<>>
                 /\ Len(DialerEvents(id)) <= 1)

\* The refusal has reached the dialer and the dialer's reset the listener.
C19_Witness ==
    /\ peer.protocol[1] = NopeProto
    /\ DialerEvents(1) = <<Response(1, opened[1].user_data, "ProtocolNotAvailable")>>
    /\ 1 \notin Live(conn)
    /\ 1 \notin Live(peer.conn) /\ peer.reset_in[1] = "NegotiationFailed"
    /\ 1 \in peer.fin

\* a is an initial part of b.
IsPrefix(a, b) == Len(a) <= Len(b) /\ \A i \in DOMAIN a : a[i] = b[i]

\* C20: the plaintext the listener's read_write calls hand to the multiplexer,
\* and with it the data dispatched to the substreams, is the plaintext that
\* was delivered through inbound, in the order of delivery: frame by frame,
\* what was handed over so far is an initial part of what was delivered.
C20_InOrder == IsPrefix(peer.fed, peer.got)

\* The listener has reported a notifications substream; the frame that
\* carried the handshake was left in the decoded buffer by the call that
\* returned the event and the next call has handed it to the multiplexer
\* once more.
C20_Witness ==
    /\ \E i \in DOMAIN peer.events : peer.events[i].type = "NotificationsInOpen"
    /\ Len(peer.fed) = Len(peer.got) + 1
    /\ peer.fed[Len(peer.fed)] = peer.fed[Len(peer.fed) - 1]
    /\ peer.fed[Len(peer.fed)].data \in {<<h>> : h \in Handshakes}

\* ------------------------------------------------ timeouts and inbound data

\* The inbound slice of the call holds the frame that completes the response
\* of request id.
HoldsResponse(incoming, id) ==
    \E i \in DOMAIN incoming.data :
        /\ incoming.data[i].kind = "data"
        /\ incoming.data[i].id = id
        /\ incoming.data[i].data \in {<<"fr">>, <<"ok", "fr">>}

\* The call that just ended was entered with the deadline of request id
\* reached and was handed the complete response of that request.
LateResponse(id) ==
    Ended /\ id \in last.expired /\ HoldsResponse(last.incoming, id)

\* C21 (amended): timeouts are expired before the inbound slice is looked at.
\* A call of read_write entered with the deadline of a pending request
\* reached, and handed the complete response of that request, reads no byte
\* and returns one Timeout: that of this request when no other request is
\* due, that of one of the due requests otherwise.  The response is never
\* reported, in this call or in a later one.
C21_TimeoutBeforeInbound ==
    \A id \in SubstreamIds :
        [](LateResponse(id) =>
              /\ last.result = "ok"
              /\ last.read_bytes = 0
              /\ last.seen = <<>>
              /\ Len(last.events) = 1
              /\ IsTimeout(last.events[1])
              /\ last.events[1].id \in last.expired
              /\ (last.expired = {id} => last.events[1].id = id)
              /\ [](Count(hist[id], "Ok") = 0))

\* The only request due is timed out by a call that was handed its complete
\* response.
C21_Witness ==
    \E id \in SubstreamIds :
        /\ LateResponse(id) /\ last.expired = {id}
        /\ last.events = <<Response(id, opened[id].user_data, "Timeout")>>

\* C21 as stated: the call returns the Timeout of the request whose response
\* it was handed.  It fails when another request is due too and update_now
\* reaches that one first.
C21_TimeoutOfTheAnsweredRequest ==
    \A id \in SubstreamIds :
        LateResponse(id) =>
            \E i \in DOMAIN last.events :
                IsTimeout(last.events[i]) /\ last.events[i].id = id

\* A step in which the host calls read_write.
CallsReadWrite == pc = "idle" /\ pc' = "returned" /\ last'.op = "read_write"

\* C22: one call of read_write expires at most one substream.  A call entered
\* with k >= 1 requests due returns the Timeout of exactly one of them, resets
\* that one alone, and leaves the other k - 1 due with next_timeout <= now;
\* so k calls in a row with that now return k Timeouts for k distinct
\* requests, and a call entered with no request due returns no Timeout.
C22_OneExpiryPerCall ==
    [][CallsReadWrite =>
         IF Expired(conn, clock) = {}
         THEN \A i \in DOMAIN last'.events : ~IsTimeout(last'.events[i])
         ELSE /\ last'.result = "ok"
              /\ Len(last'.events) = 1
              /\ IsTimeout(last'.events[1])
              /\ last'.events[1].id \in Expired(conn, clock)
              /\ Live(conn') = Live(conn) \ {last'.events[1].id}
              /\ Expired(conn, clock)' = Expired(conn, clock) \ {last'.events[1].id}
              /\ \A id \in Live(conn') :
                    conn'.yamux.substreams[id] = conn.yamux.substreams[id]
              /\ (Expired(conn, clock) # {last'.events[1].id} =>
                     conn'.next_timeout # None /\ conn'.next_timeout <= clock)]_vars

\* Two requests were due at the same instant; two calls have returned their
\* Timeouts, and the call after them, with that same now, has returned no
\* event.
C22_Witness ==
    /\ Returned /\ last.events = <<>> /\ last.expired = {}
    /\ \A id \in SubstreamIds :
          /\ opened[id].by = "add_request"
          /\ opened[id].deadline = last.now
          /\ hist[id] = <<"Timeout">>

\* ------------------------------------------- next_timeout on event returns

\* C23 as stated: when read_write returns an event, next_timeout at the
\* return is the least deadline of the substreams still in
\* RequestOutNegotiating, RequestOut or NotificationsOutNegotiating, and is
\* absent when there is none.  It fails: only update_now recomputes
\* next_timeout (over the request states alone); the returns of the decode
\* loop hand back the value as it stood.
C23_NextWakeIsLeastDeadline ==
    (Returned /\ last.events # <<>>) =>
        conn.next_timeout = IF Deadlines(conn, HasDeadline) = {} THEN None
                            ELSE SetMin(Deadlines(conn, HasDeadline))

\* The response of the only request is returned ahead of its deadline, and
\* that deadline is still the wake_up_after of the call.
C23_Witness ==
    /\ Returned /\ Len(last.events) = 1
    /\ last.events[1].type = "Response" /\ last.events[1].response = "Ok"
    /\ Deadlines(conn, HasDeadline) = {}
    /\ last.wake_up_after = opened[last.events[1].id].deadline
    /\ last.now < last.wake_up_after

\* ------------------------------------------------- what update_now expires

\* The substreams the inbound slice holds a frame for.
Addressed(incoming) == {incoming.data[i].id : i \in DOMAIN incoming.data}

\* The substreams named by the reports of the multiplexer during the call.
Dispatched(seen) == {seen[i].id : i \in DOMAIN seen}

Outcomes ==
    {"Timeout", "SubstreamReset", "ProtocolNotAvailable", "NegotiationError",
     "ResponseLebError", "Ok"}

\* C25: a substream opened by add_request gets at most one event over all the
\* calls of read_write, a Response, whichever path returns it; once it has
\* got it the substream is gone from the table or is in NegotiationFailed,
\* which holds no deadline and returns no event.
C25_AtMostOneResponse ==
    \A id \in SubstreamIds :
        opened[id].by = "add_request" =>
            /\ Len(hist[id]) <= 1
            /\ \A i \in DOMAIN hist[id] : hist[id][i] \in Outcomes
            /\ (hist[id] # <<>> /\ alive /\ id \in Live(conn)) =>
                   conn.yamux.substreams[id].st = "NegotiationFailed"

\* A request has got its response and a later call, at or past its deadline,
\* has been handed one more frame for it and has returned no event.
C25_Witness ==
    \E id \in Live(conn) :
        /\ hist[id] = <<"Ok">>
        /\ Returned /\ last.events = <<>> /\ id \in Addressed(last.incoming)
        /\ last.now >= opened[id].deadline

\* ------------------------------------------ parsed plaintext is consumed

\* The frames of the inbound slice that the call has injected in the cipher:
\* the prefix of read_bytes bytes.
Injected(data, read_bytes) ==
    SubSeq(data, 1, CHOOSE n \in 0..Len(data) : BytesOf(SubSeq(data, 1, n)) = read_bytes)

\* The parses of the call in which the multiplexer reported n > 0 bytes.
NumParsed(seen) ==
    Cardinality({i \in DOMAIN seen : seen[i].detail # "Err" /\ seen[i].frame # NoFrame})

\* C26 as stated: every count of bytes the multiplexer reports as parsed is
\* consumed from the decoded buffer once, before the multiplexer parses
\* again, on every branch of the decode loop; so, at the return of a call,
\* the decoded buffer is what the call found and injected, less one frame per
\* parse.  It fails: the returns with an event and the `continue` of the
\* StreamReset arm leave the loop without consuming, and the frame is parsed
\* once more.
C26_ParsedBytesConsumedOnce ==
    [][(CallsReadWrite /\ last'.result = "ok") =>
          conn'.encryption =
              SubSeq(conn.encryption \o Injected(last'.incoming.data, last'.read_bytes),
                     NumParsed(last'.seen) + 1,
                     Len(conn.encryption) + Len(Injected(last'.incoming.data,
                                                         last'.read_bytes)))]_vars

\* A call has returned an event from the dispatch of a data frame, and that
\* frame is still at the head of the decoded buffer.
C26_Witness ==
    /\ Returned /\ last.events # <<>> /\ last.seen # <<>>
    /\ last.seen[Len(last.seen)].detail = "DataFrame"
    /\ conn.encryption # <<>>
    /\ Head(conn.encryption) = last.seen[Len(last.seen)].frame

\* ------------------------------------- inbound negotiation under any Config

\* Longest protocol list of a Config.
MaxProtocols == 2

\* The names a Config is built from.
ConfigNames == {ReqProto, NotifProto, PingProto}

ProtocolLists == UNION {[1..n -> ConfigNames] : n \in 0..MaxProtocols}

\* Established as into_connection builds it from any Config: the lists may
\* share names with each other and with the ping protocol.
Connections ==
    {[NewConnection EXCEPT !.in_request_protocols = rq,
                           !.in_notifications_protocols = nt,
                           !.ping_protocol = p] :
        rq \in ProtocolLists, nt \in ProtocolLists, p \in ConfigNames}

InitInbound ==
    /\ conn \in Connections
    /\ alive = TRUE
    /\ clock = 0
    /\ pc = "idle"
    /\ last = NoCall
    /\ hist = [id \in SubstreamIds |-> <<>>]
    /\ opened = [id \in SubstreamIds |-> [by |-> "none", deadline |-> None, user_data |-> 0]]
    /\ pinged = 0
    /\ peer = NoPeer
    /\ ahead = Lookahead(NewConnection, 0, NoPeer)
    /\ digest = NoDigest

\* The host calls read_write with the slice `data` and room for output.
InboundCall(data) ==
    /\ pc = "idle"
    /\ Len(conn.yamux.out) <= MaxOutQueue
    /\ \E out \in OutRegions :
       \E rw \in {read_write(conn, clock, 0, [some |-> TRUE, data |-> data], out)} :
         /\ conn' = IF rw.result = "ok" THEN rw.connection ELSE Dropped(conn)
         /\ alive' = (rw.result = "ok")
         /\ last' = Call("read_write", clock, 0, [some |-> TRUE, data |-> data], out, rw, {})
         /\ hist' = Record(hist, rw.events)
         /\ opened' = [id \in SubstreamIds |->
                          IF id \in AcceptedBy(conn, rw.connection)
                          THEN [by |-> "remote", deadline |-> None, user_data |-> 0]
                          ELSE opened[id]]
    /\ pc' = "returned"
    /\ UNCHANGED <<clock, pinged, peer, ahead, digest>>

\* The remote opens a substream.
InboundOpen ==
    /\ conn.yamux.next_id <= MaxSubstreams
    /\ InboundCall(<<Frame("syn", 0, <<>>)>>)

\* The remote goes on with the negotiation of a substream it opened: it sends
\* part of a message, or the name of the protocol it asks for.
InboundFeed ==
    \E id \in Live(conn) :
        /\ conn.yamux.substreams[id].st = "InboundNegotiating"
        /\ \E data \in {<<"part">>} \cup {<<P>> : P \in ProtocolNames} :
              InboundCall(<<Frame("data", id, data)>>)

InboundNext ==
    \/ InboundOpen
    \/ InboundFeed
    \/ HostResume

SpecInbound == InitInbound /\ [][InboundNext]_vars

\* `protocol` is in `list`.
Listed(list, protocol) == \E i \in DOMAIN list : list[i] = protocol

\* C27: when the negotiation of an inbound substream succeeds with protocol
\* P, the substream becomes PingIn with an empty buffer if P is the ping
\* protocol of the Config, whatever the lists hold; else RequestInRecv{P} if
\* P is in in_request_protocols, whether or not it is in
\* in_notifications_protocols too; else NotificationsInHandshake{P}.
C27_InboundPriority ==
    [][\A id \in Live(conn), P \in ProtocolNames :
          (/\ CallsReadWrite
           /\ conn.yamux.substreams[id].st = "InboundNegotiating"
           /\ last'.incoming.data = <<Frame("data", id, <<P>>)>>
           /\ \/ P = conn.ping_protocol
              \/ Listed(conn.in_request_protocols, P)
              \/ Listed(conn.in_notifications_protocols, P)) =>
              /\ last'.result = "ok" /\ last'.events = <<>>
              /\ id \in Live(conn')
              /\ P = conn.ping_protocol =>
                     conn'.yamux.substreams[id] = PingIn(<<>>)
              /\ (P # conn.ping_protocol /\ Listed(conn.in_request_protocols, P)) =>
                     conn'.yamux.substreams[id] = RequestInRecv(P, 0)
              /\ (P # conn.ping_protocol /\ ~Listed(conn.in_request_protocols, P)) =>
                     conn'.yamux.substreams[id] = NotificationsInHandshake(P, 0)]_vars

\* Under a Config whose ping protocol is also a request protocol, and which
\* has another name in both lists, one inbound substream that negotiated the
\* ping name is in PingIn and one that negotiated the shared name is in
\* RequestInRecv.
C27_Witness ==
    /\ Returned
    /\ Listed(conn.in_request_protocols, conn.ping_protocol)
    /\ \E a, b \in Live(conn) :
          /\ conn.yamux.substreams[a] = PingIn(<<>>)
          /\ conn.yamux.substreams[b].st = "RequestInRecv"
          /\ conn.yamux.substreams[b].protocol # conn.ping_protocol
          /\ Listed(conn.in_notifications_protocols, conn.yamux.substreams[b].protocol)

\* ------------------------------------------- NegotiationFailed takes it all

\* The call dispatched a data frame to substream id, then in NegotiationFailed.
DiscardedFor(seen, id) ==
    \E i \in DOMAIN seen :
        seen[i].detail = "DataFrame" /\ seen[i].id = id /\ seen[i].st = "NegotiationFailed"

\* Queue q2 is what is left of queue q1 once some of its bytes were sent.
IsDrained(q2, q1) ==
    /\ Len(q2) <= Len(q1)
    /\ \A i \in DOMAIN q2 :
          /\ q2[i].what = q1[i + Len(q1) - Len(q2)].what
          /\ q2[i].len <= q1[i + Len(q1) - Len(q2)].len

\* C28: NegotiationFailed is absorbing under inbound data.  A call of
\* read_write that dispatches a data frame to a substream in
\* NegotiationFailed drops the frame whole and goes on to the next one; the
\* substream stays in NegotiationFailed, nothing is added to its write queue
\* and the call returns no event for it.
C28_NegotiationFailedAbsorbs ==
    [][\A id \in Live(conn) :
          (/\ CallsReadWrite /\ last'.result = "ok"
           /\ conn.yamux.substreams[id].st = "NegotiationFailed"
           /\ DiscardedFor(last'.seen, id)
           /\ \A i \in DOMAIN last'.seen :
                 ~(last'.seen[i].detail = "StreamReset" /\ last'.seen[i].id = id)) =>
              /\ id \in Live(conn')
              /\ conn'.yamux.substreams[id] = NegotiationFailed
              /\ IsDrained(WriteQueue(conn'.yamux, id), WriteQueue(conn.yamux, id))
              /\ \A i \in DOMAIN last'.events : last'.events[i].id # id
              /\ last'.events = <<>> => conn'.encryption = <<>>]_vars

\* An inbound substream whose negotiation failed has been sent the name of a
\* supported protocol; the call has read the frame, has returned no event and
\* has left the decoded buffer empty.
C28_Witness ==
    /\ Returned /\ last.events = <<>>
    /\ \E id \in Live(conn) :
          /\ opened[id].by = "remote"
          /\ last.incoming.data = <<Frame("data", id, <<ReqProto>>)>>
          /\ DiscardedFor(last.seen, id)
          /\ conn.yamux.substreams[id] = NegotiationFailed
          /\ last.read_bytes = last.in_len /\ conn.encryption = <<>>

\* ------------------------------------------------ the request is sent out

\* What each item of a write queue is.
Whats(q) == [i \in DOMAIN q |-> q[i].what]

\* The call was handed, for request id still negotiating, the one frame in
\* which the remote accepts the protocol, and has dispatched it.
Accepted(id) ==
    /\ CallsReadWrite /\ last'.result = "ok"
    /\ id \in Live(conn) /\ conn.yamux.substreams[id].st = "RequestOutNegotiating"
    /\ conn.encryption = <<>>
    /\ last'.incoming.data = <<Frame("data", id, <<"ok">>)>>
    /\ last'.seen # <<>> /\ last'.seen[1].detail = "DataFrame"

\* C29: when the dialer negotiation of a request succeeds, the write queue of
\* the substream receives the output of the negotiation, then the LEB128
\* length of the request, then the request, and the write side is closed
\* after these three writes; the state becomes RequestOut.  A call that is
\* given no room for output leaves the four items at the end of the queue;
\* one that is given room sends them in that order.
C29_RequestIsQueuedInOrder ==
    [][\A id \in SubstreamIds :
          Accepted(id) =>
              /\ id \in Live(conn')
              /\ conn'.yamux.substreams[id].st = "RequestOut"
              /\ last'.events = <<>>
              /\ IsDrained(WriteQueue(conn'.yamux, id),
                           WriteQueue(conn.yamux, id)
                               \o <<[id |-> id, what |-> "nego", len |-> 1, data |-> <<>>],
                                    [id |-> id, what |-> "leb", len |-> 1, data |-> <<>>],
                                    [id |-> id, what |-> "request", len |-> 2, data |-> <<>>],
                                    [id |-> id, what |-> "fin", len |-> 1, data |-> <<>>]>>)
              /\ last'.written_bytes = 0 =>
                     Whats(WriteQueue(conn'.yamux, id)) =
                         Whats(WriteQueue(conn.yamux, id))
                             \o <<"nego", "leb", "request", "fin">>]_vars

\* The negotiation of a request has succeeded in a call that had no room for
\* output: behind the proposal queued by add_request are the end of the
\* negotiation, the length, the request and the close.
C29_Witness ==
    /\ Returned /\ last.written_bytes = 0
    /\ \E id \in Live(conn) :
          /\ last.incoming.data = <<Frame("data", id, <<"ok">>)>>
          /\ conn.yamux.substreams[id].st = "RequestOut"
          /\ Whats(WriteQueue(conn.yamux, id)) =
                 <<"nego", "nego", "leb", "request", "fin">>

\* ------------------------------------------- a request keeps its deadline

\* C30: the deadline and the tag of a request do not change after
\* add_request.  A substream in RequestOutNegotiating or RequestOut holds the
\* deadline now + RequestTimeout and the tag that add_request gave it, and no
\* step (progress of the negotiation, its success, part of a response)
\* changes either.
C30_DeadlineAndTagAreKept ==
    [][\A id \in Live(conn') :
          IsRequest(conn'.yamux.substreams[id]) =>
              /\ opened'[id].by = "add_request"
              /\ conn'.yamux.substreams[id].timeout = opened'[id].deadline
              /\ conn'.yamux.substreams[id].user_data = opened'[id].user_data
              /\ id \in Live(conn) =>
                     /\ IsRequest(conn.yamux.substreams[id])
                     /\ conn'.yamux.substreams[id].timeout =
                            conn.yamux.substreams[id].timeout
                     /\ conn'.yamux.substreams[id].user_data =
                            conn.yamux.substreams[id].user_data
              /\ id \notin Live(conn) =>
                     /\ last'.op = "add_request" /\ last'.id = id
                     /\ conn'.yamux.substreams[id].timeout = clock + RequestTimeout]_vars

\* A request opened at an earlier instant has got through its negotiation
\* and has just been handed part of its response: it is in RequestOut with
\* the deadline of add_request.
C30_Witness ==
    /\ Returned /\ last.events = <<>>
    /\ \E id \in Live(conn) :
          /\ last.incoming.data = <<Frame("data", id, <<"part">>)>>
          /\ conn.yamux.substreams[id].st = "RequestOut"
          /\ conn.yamux.substreams[id].framed = 1
          /\ conn.yamux.substreams[id].timeout = opened[id].deadline
          /\ opened[id].deadline < last.now + RequestTimeout

\* ------------------------------------------------- the RequestOut arm

\* The call was handed one data frame, `data`, for request id, then in
\* RequestOut with its deadline ahead, and has dispatched it.
FedRequestOut(id, data) ==
    /\ CallsReadWrite
    /\ id \in Live(conn) /\ conn.yamux.substreams[id].st = "RequestOut"
    /\ conn.encryption = <<>>
    /\ last'.incoming.data = <<Frame("data", id, data)>>
    /\ last'.seen # <<>> /\ last'.seen[1].detail = "DataFrame"

\* C31: for a substream in RequestOut, data that completes a frame makes
\* read_write return the Response (Ok) with the id add_request returned and
\* the tag it was passed; data the framed reader rejects resets the substream
\* and returns ResponseLebError with that id and tag; data that does neither
\* leaves the substream in RequestOut, with its deadline and tag, and no
\* event.
C31_RequestOutArm ==
    [][\A id \in SubstreamIds :
          /\ FedRequestOut(id, <<"fr">>) =>
                /\ last'.result = "ok"
                /\ last'.events = <<Response(id, opened[id].user_data, "Ok")>>
                /\ opened[id].by = "add_request"
          /\ FedRequestOut(id, <<"bad">>) =>
                /\ last'.result = "ok"
                /\ last'.events = <<Response(id, opened[id].user_data, "ResponseLebError")>>
                /\ id \notin Live(conn')
                /\ Whats(WriteQueue(conn'.yamux, id)) =
                       Whats(WriteQueue(conn.yamux, id)) \o <<"rst">>
          /\ FedRequestOut(id, <<"part">>) =>
                /\ last'.result = "ok"
                /\ last'.events = <<>>
                /\ id \in Live(conn')
                /\ conn'.yamux.substreams[id] =
                       RequestOut(opened[id].deadline, opened[id].user_data, 1)]_vars

\* The framed reader of a request with a non-zero tag has rejected the data
\* it was handed; the call has returned ResponseLebError with that tag.
C31_Witness ==
    /\ Returned
    /\ \E id \in SubstreamIds :
          /\ last.incoming.data = <<Frame("data", id, <<"bad">>)>>
          /\ opened[id].user_data # 0
          /\ last.events = <<Response(id, opened[id].user_data, "ResponseLebError")>>
          /\ id \notin Live(conn)

\* ------------------------------------------- inbound notifications

\* The call dispatched a data frame to substream id, then in state st.
DispatchedIn(seen, id, st) ==
    \E i \in DOMAIN seen :
        seen[i].detail = "DataFrame" /\ seen[i].id = id /\ seen[i].st = st

\* The multiplexer reported no reset of substream id during the call.
NotReset(seen, id) ==
    \A i \in DOMAIN seen : ~(seen[i].detail = "StreamReset" /\ seen[i].id = id)

\* C32: for a substream in NotificationsInHandshake, the data that completes
\* the handshake frame moves it to NotificationsInWait and returns
\* NotificationsInOpen with its id, its protocol and the handshake; the
\* substream gets that event once.  A data frame dispatched to a substream in
\* NotificationsInWait is discarded: the state stays, nothing is queued and
\* no event is returned for it.
C32_NotificationsInOpenOnce ==
    [][\A id \in SubstreamIds :
          /\ Count(hist'[id], "NotificationsInOpen") <= 1
          /\ (/\ CallsReadWrite
              /\ id \in Live(conn)
              /\ conn.yamux.substreams[id].st = "NotificationsInHandshake"
              /\ conn.encryption = <<>>
              /\ last'.incoming.data = <<Frame("data", id, <<"fr">>)>>
              /\ DispatchedIn(last'.seen, id, "NotificationsInHandshake")) =>
                 /\ last'.result = "ok"
                 /\ last'.events =
                        <<NotificationsInOpen(id, conn.yamux.substreams[id].protocol, "fr")>>
                 /\ id \in Live(conn')
                 /\ conn'.yamux.substreams[id] = NotificationsInWait
                 /\ hist[id] = <<>>
          /\ (/\ CallsReadWrite /\ last'.result = "ok"
              /\ id \in Live(conn)
              /\ conn.yamux.substreams[id].st = "NotificationsInWait"
              /\ DispatchedIn(last'.seen, id, "NotificationsInWait")
              /\ NotReset(last'.seen, id)) =>
                 /\ id \in Live(conn')
                 /\ conn'.yamux.substreams[id] = NotificationsInWait
                 /\ IsDrained(WriteQueue(conn'.yamux, id), WriteQueue(conn.yamux, id))
                 /\ \A i \in DOMAIN last'.events : last'.events[i].id # id
                 /\ hist'[id] = hist[id]]_vars

\* A substream that was reported open has been sent one more complete frame:
\* the call has read it and returned no event, and the substream has its one
\* NotificationsInOpen.
C32_Witness ==
    /\ Returned /\ last.events = <<>>
    /\ \E id \in Live(conn) :
          /\ last.incoming.data = <<Frame("data", id, <<"fr">>)>>
          /\ DispatchedIn(last.seen, id, "NotificationsInWait")
          /\ conn.yamux.substreams[id] = NotificationsInWait
          /\ hist[id] = <<"NotificationsInOpen">>
          /\ conn.encryption = <<>>

\* ------------------------------------------------- inbound requests

C34_AddRequestAddsOne ==
    [][(pc = "idle" /\ pc' = "returned" /\ last'.op = "add_request") =>
          /\ last'.id \notin Live(conn)
          /\ opened[last'.id].by = "none"
          /\ Live(conn') = Live(conn) \cup {last'.id}
          /\ conn'.yamux.substreams[last'.id].request \in Requests
          /\ conn'.yamux.substreams[last'.id] =
                 RequestOutNegotiating(clock + RequestTimeout,
                                       opened'[last'.id].user_data,
                                       conn'.yamux.substreams[last'.id].request)
          /\ opened'[last'.id].user_data \in UserTags
          /\ conn'.yamux.out =
                 Append(conn.yamux.out,
                        [id |-> last'.id, what |-> "nego", len |-> 1, data |-> <<>>])
          /\ \A id \in Live(conn) :
                conn'.yamux.substreams[id] = conn.yamux.substreams[id]
          /\ conn'.encryption = conn.encryption
          /\ last'.events = <<>> /\ hist' = hist
          /\ last'.written_bytes = 0 /\ last'.read_bytes = 0]_vars

\* A second request was added, at a later instant, while the first message
\* of the first one was still queued.
C34_Witness ==
    /\ Opening /\ last.op = "add_request" /\ last.id = 2
    /\ 1 \in Live(conn) /\ conn.yamux.substreams[1].st = "RequestOutNegotiating"
    /\ conn.yamux.substreams[1].timeout < conn.yamux.substreams[2].timeout
    /\ WriteQueue(conn.yamux, 1) # <<>>
    /\ Whats(WriteQueue(conn.yamux, 2)) = <<"nego">>

\* ------------------------------------------------- the flush is complete

\* The pairs of output regions a call can be handed or be left with.
Regions == (0..MaxOutLen) \X (0..MaxOutLen)

\* C35: when read_write returns with no event the flush has gone as far as it
\* can: the multiplexer has nothing left to send, or the room left in the two
\* output regions admits no further ciphertext.  Region 0 is filled before
\* region 1: after `written` bytes the regions left hold that many bytes
\* less, region 1 is whole as long as region 0 is not full, and region 0 is
\* empty only when region 1 is empty too.
C35_FlushedAsFarAsPossible ==
    /\ (Returned /\ last.events = <<>>) =>
           /\ \/ conn.yamux.out = <<>>
              \/ EncryptSizeConv(last.out[1] + last.out[2] - last.written_bytes) = 0
           /\ last.written_bytes > 0 => last.written_bytes > NoiseOverhead
    /\ \A out \in Regions :
          \A written \in 0..(out[1] + out[2]) :
             /\ ShrinkOutgoing(out, written)[1] + ShrinkOutgoing(out, written)[2]
                    = out[1] + out[2] - written
             /\ written < out[1] =>
                    ShrinkOutgoing(out, written) = <<out[1] - written, out[2]>>
             /\ ShrinkOutgoing(out, written)[1] = 0 =>
                    ShrinkOutgoing(out, written)[2] = 0

\* A call has sent two buffers, the second past the end of region 0, and has
\* stopped with buffers still queued because no room is left.
C35_Witness ==
    /\ Returned /\ last.events = <<>>
    /\ last.written_bytes > last.out[1] /\ last.out[1] > 0
    /\ conn.yamux.out # <<>>
    /\ EncryptSizeConv(last.out[1] + last.out[2] - last.written_bytes) = 0

\* ------------------------------------------- events return before the flush

\* C36: a call of read_write that returns an event reports written_bytes = 0.
\* Every return with an event leaves before the flush: what the call has
\* queued (negotiation output, a reset, a ping echo) is added behind what was
\* queued already, and all of it waits for a later call.
C36_EventReturnsWriteNothing ==
    [][(CallsReadWrite /\ last'.events # <<>>) =>
          /\ last'.result = "ok"
          /\ last'.written_bytes = 0
          /\ IsPrefix(conn.yamux.out, conn'.yamux.out)]_vars

\* A call that was given room for output has returned an event from the
\* dispatch of a frame; the negotiation output and the reset it queued are
\* behind the item that was waiting.
C36_Witness ==
    /\ Returned /\ last.events # <<>> /\ last.seen # <<>>
    /\ last.out = <<MaxOutLen, MaxOutLen>>
    /\ Len(conn.yamux.out) >= 2
    /\ conn.yamux.out[Len(conn.yamux.out)].what = "rst"

\* ------------------------------------------------------------ termination

\* The reports of an ignored reset among those of the call.
NumResets(seen) ==
    Cardinality({i \in DOMAIN seen : seen[i].detail = "StreamReset"})

C38_PingBufferBelowSize ==
    \A id \in Live(conn) :
        conn.yamux.substreams[id].st = "PingIn" =>
            /\ Len(conn.yamux.substreams[id].payload) < PingSize
            /\ \A n \in 1..MaxPingFrame :
                  Len(PingPush(conn.yamux, id, conn.yamux.substreams[id].payload,
                               PingBytes(pinged + 1, n)).payload)
                      = (Len(conn.yamux.substreams[id].payload) + n) % PingSize

\* A block has been echoed and the next one lacks one byte.
C38_Witness ==
    /\ pc = "returned" /\ 1 \in Live(conn)
    /\ conn.yamux.substreams[1].st = "PingIn"
    /\ Len(conn.yamux.substreams[1].payload) = PingSize - 1
    /\ Len(PingQueued(1)) = 1

\* ------------------------------------------------- digest items round trip

\* Any DigestItem within the bounds, before it is encoded.
InitDigest ==
    /\ conn = NewConnection
    /\ alive = TRUE
    /\ clock = 0
    /\ pc = "idle"
    /\ last = NoCall
    /\ hist = [id \in SubstreamIds |-> <<>>]
    /\ opened = [id \in SubstreamIds |-> [by |-> "none", deadline |-> None, user_data |-> 0]]
    /\ pinged = 0
    /\ peer = NoPeer
    /\ ahead = Lookahead(NewConnection, 0, NoPeer)
    /\ digest \in {[NoDigest EXCEPT !.step = "item", !.item = item] :
                     item \in DigestItems}

\* DigestItem::encode
DigestEncode ==
    /\ digest.step = "item"
    /\ digest' = [digest EXCEPT !.step = "encoded", !.bytes = encode(digest.item)]
    /\ UNCHANGED <<conn, alive, clock, pc, last, hist, opened, pinged, peer, ahead>>

\* DigestItem::decode of the bytes the encoder produced
DigestDecode ==
    /\ digest.step = "encoded"
    /\ \E d \in {decode(digest.bytes)} :
         digest' = [digest EXCEPT !.step = "decoded",
                                  !.result = IF d.ok THEN "Ok" ELSE "Err",
                                  !.decoded = IF d.ok THEN d.value ELSE NoItem,
                                  !.rest = d.rest]
    /\ UNCHANGED <<conn, alive, clock, pc, last, hist, opened, pinged, peer, ahead>>

DigestNext ==
    \/ DigestEncode
    \/ DigestDecode

SpecDigest == InitDigest /\ [][DigestNext]_vars

\* C39: decoding the encoding of a DigestItem succeeds, uses up all the bytes
\* and yields the same DigestItem, whichever of the six variants it is; the
\* first byte the encoder writes is 2 for ChangesTrieRoot, 6 for PreRuntime,
\* 4 for Consensus, 5 for Seal, 7 for ChangesTrieSignal and 0 for Other, the
\* decoder maps that byte back to the same variant, and no two variants have
\* the same byte.
C39_DigestItemRoundTrip ==
    /\ digest.step \in {"encoded", "decoded"} =>
         /\ digest.bytes # <<>>
         /\ Head(digest.bytes) =
              (CASE digest.item.variant = "ChangesTrieRoot" -> 2
                 [] digest.item.variant = "PreRuntime" -> 6
                 [] digest.item.variant = "Consensus" -> 4
                 [] digest.item.variant = "Seal" -> 5
                 [] digest.item.variant = "ChangesTrieSignal" -> 7
                 [] digest.item.variant = "Other" -> 0)
         /\ DecodeDigestItemType(digest.bytes).ok
         /\ DecodeDigestItemType(digest.bytes).value = digest.item.variant
    /\ digest.step = "decoded" =>
         /\ digest.result = "Ok"
         /\ digest.decoded = digest.item
         /\ digest.rest = <<>>
    /\ \A v, w \in Variants :
         v # w => EncodeDigestItemType(v) # EncodeDigestItemType(w)

\* A PreRuntime item with data has been encoded and decoded back.
C39_Witness ==
    /\ digest.step = "decoded"
    /\ digest.item.variant = "PreRuntime"
    /\ digest.item.data # <<>>
    /\ digest.bytes[1] = 6
    /\ digest.decoded = digest.item

====
